---- MODULE Spec2Model ----
(***************************************************************************)
(* Chunked terrain streaming of three-test: the chunk store of Terrain,    *)
(* updateChunks / updatePlayerPosition / getHeightAt / update, height      *)
(* generation from layered noise, border-normal stitching and the scatter  *)
(* placement (trees, flowers, grass) done when a chunk is created.         *)
(*                                                                         *)
(* Number representation.  The program computes in IEEE doubles and stores *)
(* heights and normals in Float32Array.  The model uses fixed point:       *)
(*   - world x/z coordinates are integers in units of cellSize / Sub;      *)
(*   - perlin values are tenths, octave amplitudes thousandths, so a raw   *)
(*     octave sum is in units of 1/10000;                                  *)
(*   - normalised noise, masks and densities are hundredths;               *)
(*   - heightData samples are tenths (the Float32 store rounds);           *)
(*   - a height returned by a sampler is a numerator over YDen.            *)
(***************************************************************************)
EXTENDS Integers, Sequences, FiniteSets, TLC

VARIABLES
  chunks,        \* Terrain.chunks: the Map, as the sequence of its entries in insertion order
  lastChunkX,    \* Terrain.lastChunkX
  lastChunkZ,    \* Terrain.lastChunkZ
  noiseRanges,   \* Terrain.noiseRanges
  perm,          \* the permutation table of the ImprovedNoise instance (fixed per session)
  nextId,        \* identity of the next TerrainChunk object to be constructed
  disposed,      \* identities of the TerrainChunk objects dispose() was called on
  failed,        \* history: the coordinates whose last createChunk call threw
  children,      \* Terrain.children: the scene nodes attached to the Terrain group, in order
  disposedResources, \* the geometries, materials and textures dispose() was called on
  built,         \* history: coordinate -> heightData of the first chunk built there
  events,        \* history: createChunk / disposeChunk / smoothChunkBorders calls of the last public call
  call,          \* history: the last public call, its arguments and the value it returned
  firstQuery,    \* history: first getHeightAt call since the chunk set last changed
  updates,       \* number of updateChunks calls made so far
  probe          \* what a specification follows besides the Terrain: one heightData sample,
                 \* one GrassChunk, or the flower instances with Flower.modelCache

vars == <<chunks, lastChunkX, lastChunkZ, noiseRanges, perm, nextId, disposed,
          failed, children, disposedResources, built, events, call, firstQuery, updates,
          probe>>

----------------------------------------------------------------------------
(* Bounds of the model *)

chunkSize == 2
chunkRadius == 1
SubHalf == 1
MaxUpdates == 2
MaxQueryUpdates == 1
NumPerms == 2
NumRandSeeds == 1
maxTreesPerChunk == 2
maxDaisiesPerChunk == 2
bladeCount == 2

(* Program constants (fixed point as described above) *)

heightScale == 36
lacunarity == 2
seed == 42
hillNoiseScale == 8
detailNoiseScale == 60
hillOctaves == 5
detailOctaves == 5
hillPersistence == 650
detailPersistence == 500
hillAmplitude == 2
detailAmplitude == 90
flatThreshold == 35
flatBlend == 12
waterLevel == 16
sampleChunks == 4
treeNoiseScale == 25
treeNoiseOctaves == 3
treeNoisePersistence == 550
treeHighThreshold == 60
treeLowThreshold == 40
flowerNoiseScale == 120

Sub == 2 * SubHalf
HQ == 10
YDen == Sub * Sub * HQ

NoValue == <<>>

----------------------------------------------------------------------------
(* Arithmetic helpers *)

Max(a, b) == IF a >= b THEN a ELSE b
Min(a, b) == IF a <= b THEN a ELSE b
Abs(a) == IF a >= 0 THEN a ELSE -a

RECURSIVE IPow(_, _)
IPow(b, e) == IF e = 0 THEN 1 ELSE b * IPow(b, e - 1)

\* amp after `index` multiplications by persistence (thousandths)
RECURSIVE Amp(_, _)
Amp(persistence, index) ==
  IF index = 0 THEN 1000 ELSE (Amp(persistence, index - 1) * persistence) \div 1000

----------------------------------------------------------------------------
(* IEEE numbers.  A number is a fixed-point integer or one of NaN, +Infinity,  *)
(* -Infinity, which are kept as three integers outside the range of every     *)
(* finite value of the model.                                                  *)

PosInf == 2000000000
NegInf == -2000000000
NaN == 2100000000

\* Number.isFinite(v)
IsFinite(v) == v # NaN /\ v # PosInf /\ v # NegInf

\* a - b
FSub(a, b) ==
  IF a = NaN \/ b = NaN THEN NaN
  ELSE IF a = PosInf THEN (IF b = PosInf THEN NaN ELSE PosInf)
  ELSE IF a = NegInf THEN (IF b = NegInf THEN NaN ELSE NegInf)
  ELSE IF b = PosInf THEN NegInf
  ELSE IF b = NegInf THEN PosInf
  ELSE a - b

\* a + b
FAdd(a, b) ==
  IF a = NaN \/ b = NaN THEN NaN
  ELSE IF a = PosInf THEN (IF b = NegInf THEN NaN ELSE PosInf)
  ELSE IF a = NegInf THEN (IF b = PosInf THEN NaN ELSE NegInf)
  ELSE IF b = PosInf \/ b = NegInf THEN b
  ELSE a + b

\* num / den for a divisor that is neither 0 nor NaN; a finite quotient is
\* (num * scale) \div den, scale being the fixed-point unit of the result
FQuot(num, den, scale) ==
  IF num = NaN THEN NaN
  ELSE IF num = PosInf \/ num = NegInf
       THEN IF den = PosInf \/ den = NegInf THEN NaN
            ELSE IF (num = PosInf) = (den > 0) THEN PosInf ELSE NegInf
  ELSE IF den = PosInf \/ den = NegInf THEN 0
  ELSE (num * scale) \div den

\* Math.min(a, b) and Math.max(a, b)
FMin(a, b) == IF a = NaN \/ b = NaN THEN NaN ELSE Min(a, b)
FMax(a, b) == IF a = NaN \/ b = NaN THEN NaN ELSE Max(a, b)

\* v > 0
Positive(v) == v # NaN /\ v > 0

----------------------------------------------------------------------------
(* NoiseGenerator *)

\* ImprovedNoise.noise(x, y, z): a fixed pure function into [-1, 1] (tenths).
\* x and y are numerators over 2000, z is the integer band offset.
Perlin(p, x, y, z) ==
  ((x * 5 + y * 11 + z * 2 + (x \div 16) * (y \div 16) + p * 13) % 21) - 10

\* NoiseGenerator.sampleOctaves; x2, y2 are twice the sample coordinates
RECURSIVE OctaveSum(_, _, _, _, _)
OctaveSum(p, x2, y2, options, index) ==
  IF index = options.octaves THEN 0
  ELSE LET freq == options.scale * IPow(options.lacunarity, index)
       IN  Perlin(p, x2 * freq, y2 * freq, options.offsetZ) * Amp(options.persistence, index)
           + OctaveSum(p, x2, y2, options, index + 1)

sampleOctaves(p, x2, y2, options) == OctaveSum(p, x2, y2, options, 0)

hillOptions ==
  [lacunarity |-> lacunarity, octaves |-> hillOctaves, offsetZ |-> seed,
   persistence |-> hillPersistence, scale |-> hillNoiseScale]

detailOptions ==
  [lacunarity |-> lacunarity, octaves |-> detailOctaves, offsetZ |-> seed + 512,
   persistence |-> detailPersistence, scale |-> detailNoiseScale]

\* the minimum and maximum of a non-empty set of numbers
SetMin(values) == CHOOSE v \in values : \A w \in values : v <= w
SetMax(values) == CHOOSE v \in values : \A w \in values : v >= w

\* variant: the sampled square starts at the origin instead of being centred on it
computeNoiseRangesFromOrigin(p, width, depth) ==
  LET area == {<<dx, dz>> : dx \in 0..(width - 1), dz \in 0..(depth - 1)}
      hs == {sampleOctaves(p, 2 * c[1], 2 * c[2], hillOptions) : c \in area}
      ds == {sampleOctaves(p, 2 * c[1], 2 * c[2], detailOptions) : c \in area}
  IN  [hillMin |-> SetMin(hs), hillMax |-> SetMax(hs),
       detailMin |-> SetMin(ds), detailMax |-> SetMax(ds)]

\* Terrain.computeNoiseRanges(width, depth)
computeNoiseRanges(p, width, depth) ==
  LET startX == -(width \div 2)
      startY == -(depth \div 2)
      area == {<<startX + dx, startY + dz>> : dx \in 0..(width - 1), dz \in 0..(depth - 1)}
      hs == {sampleOctaves(p, 2 * c[1], 2 * c[2], hillOptions) : c \in area}
      ds == {sampleOctaves(p, 2 * c[1], 2 * c[2], detailOptions) : c \in area}
  IN  [hillMin |-> SetMin(hs), hillMax |-> SetMax(hs),
       detailMin |-> SetMin(ds), detailMax |-> SetMax(ds)]

\* smoothStep(value, edgeLo, edgeHi), all hundredths; the edges are finite
smoothStep(value, edgeLo, edgeHi) ==
  LET den == IF edgeHi - edgeLo = 0 THEN 100 ELSE edgeHi - edgeLo
      tval == FMax(0, FMin(100, FQuot(FSub(value, edgeLo), den, 100)))
  IN  IF tval = NaN THEN NaN ELSE (tval * tval * (300 - 2 * tval)) \div 10000

\* clamped ** elevationExponent with elevationExponent = 1.6 = 8/5:
\* clamped in hundredths, result in tenths, rounded down
PowElevation(clamped) ==
  LET c == clamped \div 10
      c4 == c * c * c * c
      c8k == (c4 \div 10) * (c4 \div 100)
  IN  CHOOSE r \in 0..60 : r * r * r * r * r <= c8k
                          /\ (r + 1) * (r + 1) * (r + 1) * (r + 1) * (r + 1) > c8k

\* hillRange / detailRange of generateHeight: max - min || 1 (raw units of 1/10000)
RangeOr1(hi, lo) ==
  IF FSub(hi, lo) = 0 \/ FSub(hi, lo) = NaN THEN 10000 ELSE FSub(hi, lo)

\* (raw - min) / range of generateHeight, hundredths
NormOf(raw, lo, hi) == FQuot(FSub(raw, lo), RangeOr1(hi, lo), 100)

\* hillNorm of generateHeight at grid cell (x, y): (hRaw - nr.hillMin) / hillRange
hillNorm(p, nr, x, y) ==
  NormOf(sampleOctaves(p, 2 * x, 2 * y, hillOptions), nr.hillMin, nr.hillMax)

\* mask of generateHeight for a value of hillNorm, hundredths
MaskOf(hill) == smoothStep(hill, flatThreshold - flatBlend, flatThreshold + flatBlend)

\* mask of generateHeight at grid cell (x, y)
hillMask(p, nr, x, y) == MaskOf(hillNorm(p, nr, x, y))

\* detailNorm of generateHeight where the detail noise is sampled:
\* (dRaw - nr.detailMin) / detailRange
detailNorm(p, nr, x, y) ==
  NormOf(sampleOctaves(p, 2 * x, 2 * y, detailOptions), nr.detailMin, nr.detailMax)

\* detailNorm * this.detailAmplitude * mask, for a mask that is NaN or within [0, 1]
DetailPart(detail, mask) ==
  IF detail = NaN \/ mask = NaN THEN NaN
  ELSE IF detail = PosInf \/ detail = NegInf THEN (IF mask = 0 THEN NaN ELSE detail)
  ELSE (detail * detailAmplitude * mask) \div 10000

\* hillNorm * this.hillAmplitude
HillPart(hill) == IF IsFinite(hill) THEN hill * hillAmplitude ELSE hill

\* out[sampleIndex] of generateHeight from hillNorm, mask and detailNorm (tenths)
SampleOf(hill, mask, detail) ==
  LET clamped == FMax(0, FAdd(HillPart(hill), DetailPart(detail, mask)))
  IN  IF IsFinite(clamped) THEN PowElevation(clamped) ELSE clamped

\* the rest of one iteration of generateHeight, from hillNorm and mask; the detail
\* noise is sampled only when mask > 0
Elevation(p, nr, x, y, hill, mask) ==
  SampleOf(hill, mask, IF Positive(mask) THEN detailNorm(p, nr, x, y) ELSE 0)

\* one sample of Terrain.generateHeight at grid cell (x, y)
HeightSample(p, nr, x, y) ==
  Elevation(p, nr, x, y, hillNorm(p, nr, x, y), hillMask(p, nr, x, y))

\* Terrain.generateHeight(width, depth, offsetX, offsetZ): the Float32Array as a
\* sequence, sample (dx, dz) at position dx + dz * width + 1
generateHeight(p, nr, width, depth, offsetX, offsetZ) ==
  [i \in 1..(width * depth) |->
     HeightSample(p, nr, offsetX + ((i - 1) % width), offsetZ + ((i - 1) \div width))]

----------------------------------------------------------------------------
(* Chunk geometry *)

cw == chunkSize + 1
cd == chunkSize + 1

\* width of a chunk's footprint (chunkPlaneWidth) in world units of cellSize / Sub
PlaneWidth == (cw - 1) * Sub

\* index of grid vertex (lx, lz) in heightData and in the normal attribute
VIndex(lx, lz) == lx + lz * cw + 1

\* centerX of createChunk: (offsetX + (cw - 1) / 2) * cellSize
Center(offset) == (2 * offset + (cw - 1)) * SubHalf

\* variant: only the sign of the sample is tested
SanitizeOneNegativeOnly(vertex) == IF vertex < 0 THEN 0 ELSE vertex

\* if (!Number.isFinite(vertex) || vertex < 0) heightData[hi] = 0
SanitizeOne(vertex) == IF ~IsFinite(vertex) \/ vertex < 0 THEN 0 ELSE vertex

\* the validation loop of createChunk
Sanitize(heightData) ==
  [i \in DOMAIN heightData |-> SanitizeOne(heightData[i])]

\* geometry.computeVertexNormals() on the displaced plane: the normal of a
\* vertex is a function of the heights of the chunk's own vertices around it
\* (left unnormalised here); components x, y, z
VertexNormal(heightData, lx, lz) ==
  LET h(ax, az) == heightData[VIndex(Max(0, Min(cw - 1, ax)), Max(0, Min(cd - 1, az)))] * heightScale
  IN  <<h(lx - 1, lz) - h(lx + 1, lz), 400, h(lx, lz - 1) - h(lx, lz + 1)>>

computeVertexNormals(heightData) ==
  [i \in 1..(cw * cd) |-> VertexNormal(heightData, (i - 1) % cw, (i - 1) \div cw)]

\* heightData[index] || 0
OrZero(heightData, index) ==
  IF index \in DOMAIN heightData THEN heightData[index] ELSE 0

\* the function returned by makeSampleFromHeightData, applied to world (x, z);
\* the result is a numerator over YDen
SampleFromHeightData(heightData, offsetX, offsetZ, x, z) ==
  LET ix == x \div Sub
      iz == z \div Sub
      tx == x % Sub
      tz == z % Sub
      lx == ix - offsetX
      lz == iz - offsetZ
  IN  IF lx < 0 \/ lz < 0 \/ lx + 1 >= cw \/ lz + 1 >= cd THEN 0
      ELSE LET h11 == OrZero(heightData, VIndex(lx, lz))
               h21 == OrZero(heightData, VIndex(lx + 1, lz))
               h12 == OrZero(heightData, VIndex(lx, lz + 1))
               h22 == OrZero(heightData, VIndex(lx + 1, lz + 1))
               h1 == h11 * (Sub - tx) + h21 * tx
               h2 == h12 * (Sub - tx) + h22 * tx
           IN  (h1 * (Sub - tz) + h2 * tz) * heightScale

----------------------------------------------------------------------------
(* Scatter placement *)

RandSeeds == 0..(NumRandSeeds - 1)

\* one Math.random() draw scaled to a span of n grid units (0 when the span is empty);
\* rng names the random stream of the call, (cx, cz, index, slot) the draw
Draw(rng, cx, cz, index, slot, n) ==
  IF n <= 0 THEN 0
  ELSE (rng * 17 + cx * 7 + cz * 13 + index * 5 + slot * 3 + 11) % n

\* densityNormalized of generateTreesForChunk / density of generateFlowersForChunk (hundredths):
\* max(0, min(1, (raw / ampSum + 1) * 0.5))
Density(raw, ampSum) == Max(0, Min(100, ((raw * 10) \div ampSum + 100) \div 2))

RECURSIVE AmpSum(_, _)
AmpSum(persistence, octaves) ==
  IF octaves = 0 THEN 0 ELSE Amp(persistence, octaves - 1) + AmpSum(persistence, octaves - 1)

treeNoiseOptions ==
  [lacunarity |-> lacunarity, octaves |-> treeNoiseOctaves, offsetZ |-> seed + 2048,
   persistence |-> treeNoisePersistence, scale |-> treeNoiseScale]

flowerNoiseOptions ==
  [lacunarity |-> 2, octaves |-> 2, offsetZ |-> seed + 4096,
   persistence |-> 500, scale |-> flowerNoiseScale]

\* variant: the margin of 12 above the water level is left out
AtOrBelowWater(y) == y <= waterLevel * YDen

\* y <= waterLevel + 12 for a sampler value y (numerator over YDen)
AtOrBelowCutoff(y) == y <= (waterLevel + 12) * YDen

\* a geometry, material or texture: its name and the chunk object that owns it, or
\* Shared for one that is created once and used by every chunk
Shared == -1
Resource(name, owner) == <<name, owner>>

\* prototype.clone(true) of a THREE.LOD of this.baseTrees: an object that is no
\* THREE.Mesh, its meshes using the geometry and material of the prototype
TreeClone(worldX, y, worldZ) ==
  [kind |-> "tree", x |-> worldX, y |-> y, z |-> worldZ, isMesh |-> FALSE, sharedModel |-> FALSE,
   geometry |-> Resource("treeGeometry", Shared), material |-> Resource("treeMaterial", Shared)]

\* the classes generateFlowersForChunk picks from, in the order of its list
flowerConstructors ==
  <<"Daisy", "AnemoneFlower", "CrocusFlower", "DaffodilFlower", "DandelionFlower",
    "SnowdropFlower", "Rock">>

\* new ChosenFlower(scaleFactor): a Flower (a THREE.Group) of the class picked, its
\* meshes made by instantiateWithSharedResources from the cached model and marked
\* userData.sharedModel
NewFlower(worldX, y, worldZ, class) ==
  [kind |-> "flower", x |-> worldX, y |-> y, z |-> worldZ, isMesh |-> FALSE, sharedModel |-> TRUE,
   geometry |-> Resource("flowerGeometry", Shared), material |-> Resource("flowerMaterial", Shared),
   class |-> class]

\* generateTreesForChunk: the objects pushed, in order
RECURSIVE TreeLoop(_, _, _, _, _, _, _)
TreeLoop(heightData, cx, cz, offsetX, offsetZ, rng, rest) ==
  IF rest = 0 THEN <<>>
  ELSE LET ti == rest - 1
           margin == Sub
           worldX == offsetX * Sub + margin + Draw(rng, cx, cz, ti, 0, PlaneWidth - margin * 2)
           worldZ == offsetZ * Sub + margin + Draw(rng, cx, cz, ti, 1, PlaneWidth - margin * 2)
           y == SampleFromHeightData(heightData, offsetX, offsetZ, worldX, worldZ)
           before == TreeLoop(heightData, cx, cz, offsetX, offsetZ, rng, rest - 1)
       IN  IF AtOrBelowCutoff(y) THEN before
           ELSE Append(before, TreeClone(worldX, y, worldZ))

\* treeCount of generateTreesForChunk for a normalized density (hundredths):
\* Math.floor(maxTreesPerChunk) when densityNormalized > treeHighThreshold, else 0
TreeCountOf(densityNormalized) ==
  IF densityNormalized > treeHighThreshold THEN maxTreesPerChunk ELSE 0

\* treeCount of the original Terrain.createChunk for a normalized density (hundredths)
OriginalTreeCountOf(densityNormalized) ==
  IF densityNormalized <= treeLowThreshold THEN 0
  ELSE IF densityNormalized >= treeHighThreshold THEN maxTreesPerChunk
  ELSE 0

\* treeCount of generateTreesForChunk, from the tree noise at the centre of the chunk
treeCount(p, offsetX, offsetZ) ==
  LET tRaw == sampleOctaves(p, 2 * offsetX + (cw - 1), 2 * offsetZ + (cd - 1), treeNoiseOptions)
      densityNormalized == Density(tRaw, AmpSum(treeNoisePersistence, treeNoiseOctaves))
  IN  TreeCountOf(densityNormalized)

generateTreesForChunk(p, heightData, cx, cz, offsetX, offsetZ, rng) ==
  TreeLoop(heightData, cx, cz, offsetX, offsetZ, rng, treeCount(p, offsetX, offsetZ))

\* slope > 0.6 with slope = |hNeighbor - y| / cellSize and cellSize = 4096 / 199
TooSteep(hNeighbor, y) == Abs(hNeighbor - y) * 199 * 10 > 6 * 4096 * YDen

\* generateFlowersForChunk: the objects pushed, in order
RECURSIVE FlowerLoop(_, _, _, _, _, _, _)
FlowerLoop(heightData, cx, cz, offsetX, offsetZ, rng, rest) ==
  IF rest = 0 THEN <<>>
  ELSE LET fi == rest - 1
           flowerMargin == SubHalf
           worldX == offsetX * Sub + flowerMargin
                       + Draw(rng, cx, cz, fi, 2, PlaneWidth - flowerMargin * 2)
           worldZ == offsetZ * Sub + flowerMargin
                       + Draw(rng, cx, cz, fi, 3, PlaneWidth - flowerMargin * 2)
           y == SampleFromHeightData(heightData, offsetX, offsetZ, worldX, worldZ)
           hNeighbor == SampleFromHeightData(heightData, offsetX, offsetZ, worldX + Sub, worldZ)
           before == FlowerLoop(heightData, cx, cz, offsetX, offsetZ, rng, rest - 1)
       IN  IF AtOrBelowCutoff(y) THEN before
           ELSE IF TooSteep(hNeighbor, y) THEN before
           ELSE Append(before,
                       NewFlower(worldX, y, worldZ,
                                 flowerConstructors[
                                   Draw(rng, cx, cz, fi, 5, Len(flowerConstructors)) + 1]))

generateFlowersForChunk(p, heightData, cx, cz, offsetX, offsetZ, rng) ==
  LET fRaw == sampleOctaves(p, 2 * offsetX + (cw - 1), 2 * offsetZ + (cd - 1), flowerNoiseOptions)
      density == Density(fRaw, 1500)
      flowersCount == (density * maxDaisiesPerChunk) \div 100
  IN  FlowerLoop(heightData, cx, cz, offsetX, offsetZ, rng, flowersCount)

\* posNoise of populateInstanceAttributes: fract(sin(ax * 12.9898 + bz * 78.233) * 43758),
\* a pure function of the position into [0, 1), in eighths
PosNoise(ax, bz) == (ax * 3 + bz * 5) % 8

\* variant: the placement test is passed by every candidate
PlacementProbAlways(y) == 100

\* placementProb of populateInstanceAttributes (hundredths, rounded up):
\* smoothstep of y between cutoff - fuzzHalf and cutoff + fuzzHalf
PlacementProb(y) ==
  LET cutoff == waterLevel + 12
      fuzzHalf == 6
      lo == (cutoff - fuzzHalf) * YDen
      den == 2 * fuzzHalf * YDen
      tv == Max(0, Min(100, ((y - lo) * 100 + den - 1) \div den))
  IN  (tv * tv * (300 - 2 * tv) + 9999) \div 10000

\* sin and cos of half the root angle PI - Math.random() * 2 PI, for a draw in quarter
\* turns (thousandths)
HalfRootAngle(quarter) ==
  <<<<1000, 0>>, <<707, 707>>, <<0, 1000>>, <<-707, 707>>>>[quarter + 1]

\* the candidate blade `index` of populateInstanceAttributes: its position, the
\* placement test, and the angle and scale it is given when it is placed
Candidate(heightData, cx, cz, offsetX, offsetZ, rng, index) ==
  LET width == PlaneWidth
      centerX == Center(offsetX)
      centerZ == Center(offsetZ)
      x == Draw(rng, cx, cz, index, 4, width) - width \div 2
      z == Draw(rng, cx, cz, index, 5, width) - width \div 2
      y == SampleFromHeightData(heightData, offsetX, offsetZ, centerX + x, centerZ + z)
  IN  [index |-> index,
       offset |-> <<x, y, z>>,
       place |-> PosNoise(centerX + x, centerZ + z) * 100 < PlacementProb(y) * 8,
       halfRootAngle |-> HalfRootAngle(Draw(rng, cx, cz, index, 6, 4)),
       scale |-> IF index % 3 # 0 THEN 200 + Draw(rng, cx, cz, index, 7, 125)
                 ELSE 200 + Draw(rng, cx, cz, index, 7, 100)]

\* the typed arrays createInstancedGeometry allocates for `instances` candidates, zero
\* filled (an entry of offsets is an <<x, y, z>>, one of halfRootAngles a <<sin, cos>>)
NewArrays(instances) ==
  [indices |-> [i \in 1..instances |-> 0],
   offsets |-> [i \in 1..instances |-> <<0, 0, 0>>],
   scales |-> [i \in 1..instances |-> 0],
   halfRootAngles |-> [i \in 1..instances |-> <<0, 0>>],
   placedCount |-> 0,
   candidates |-> <<>>]

\* variant: an accepted blade is written to the slot of its candidate index
PlaceBladeAtIndex(arrays, instances, candidate) ==
  LET index == candidate.index
      seen == [arrays EXCEPT !.indices[index + 1] = (index * 1000) \div instances,
                             !.candidates = Append(arrays.candidates, candidate)]
  IN  IF ~candidate.place THEN seen
      ELSE [seen EXCEPT !.offsets[index + 1] = candidate.offset,
                        !.halfRootAngles[index + 1] = candidate.halfRootAngle,
                        !.scales[index + 1] = candidate.scale,
                        !.placedCount = arrays.placedCount + 1]

\* one iteration of the loop of populateInstanceAttributes: indices[index] is written
\* for every candidate (thousandths), the other arrays at slot placedCount for an
\* accepted one; `candidates` is history, the candidates in the order they were drawn
PlaceBlade(arrays, instances, candidate) ==
  LET index == candidate.index
      seen == [arrays EXCEPT !.indices[index + 1] = (index * 1000) \div instances,
                             !.candidates = Append(arrays.candidates, candidate)]
  IN  IF ~candidate.place THEN seen
      ELSE [seen EXCEPT !.offsets[arrays.placedCount + 1] = candidate.offset,
                        !.halfRootAngles[arrays.placedCount + 1] = candidate.halfRootAngle,
                        !.scales[arrays.placedCount + 1] = candidate.scale,
                        !.placedCount = arrays.placedCount + 1]

\* the loop of populateInstanceAttributes, for index = 0..rest-1 in order
RECURSIVE BladeLoop(_, _, _, _, _, _, _, _)
BladeLoop(heightData, cx, cz, offsetX, offsetZ, rng, instances, rest) ==
  IF rest = 0 THEN NewArrays(instances)
  ELSE PlaceBlade(BladeLoop(heightData, cx, cz, offsetX, offsetZ, rng, instances, rest - 1),
                  instances,
                  Candidate(heightData, cx, cz, offsetX, offsetZ, rng, rest - 1))

\* populateInstanceAttributes: the arrays as the loop leaves them, and placedCount
populateInstanceAttributes(heightData, cx, cz, offsetX, offsetZ, rng) ==
  BladeLoop(heightData, cx, cz, offsetX, offsetZ, rng, Max(0, bladeCount), Max(0, bladeCount))

\* createInstancedGeometry: the offset, scale and halfRootAngle attributes are the
\* arrays cut to placedCount entries (subarray), the index attribute is the whole
\* array, and instanceCount = placedCount
createInstancedGeometry(arrays) ==
  [offsets |-> SubSeq(arrays.offsets, 1, arrays.placedCount),
   scales |-> SubSeq(arrays.scales, 1, arrays.placedCount),
   halfRootAngles |-> SubSeq(arrays.halfRootAngles, 1, arrays.placedCount),
   indices |-> arrays.indices,
   placedCount |-> arrays.placedCount, instanceCount |-> arrays.placedCount,
   candidates |-> arrays.candidates, visible |-> TRUE]

\* buildLod: the three levels of the grass LOD of chunk object id; each level is a mesh
\* of a geometry of its own over the attributes of a shared base geometry, drawn with
\* the shared material
buildLod(id) ==
  <<[geometry |-> Resource("instancedGeometry", id), base |-> Resource("baseGeometry", Shared),
     material |-> Resource("sharedMaterial", Shared)],
    [geometry |-> Resource("farInst", id), base |-> Resource("farBaseGeometry", Shared),
     material |-> Resource("sharedMaterial", Shared)],
    [geometry |-> Resource("crossInst", id), base |-> Resource("crossBaseGeometry", Shared),
     material |-> Resource("sharedMaterial", Shared)]>>

\* ensureSharedMaterial: the textures the uniforms of the shared material refer to
SharedTextures == {Resource("sharedGrassTexture", Shared), Resource("sharedAlphaMap", Shared)}

\* new Grass(...) for chunk object id: the instanced geometry and the LOD built on it
GrassOf(instanced, id) ==
  [offsets |-> instanced.offsets, scales |-> instanced.scales,
   halfRootAngles |-> instanced.halfRootAngles, indices |-> instanced.indices,
   placedCount |-> instanced.placedCount, instanceCount |-> instanced.instanceCount,
   candidates |-> instanced.candidates, visible |-> instanced.visible,
   lod |-> buildLod(id)]

NewGrass(heightData, cx, cz, offsetX, offsetZ, rng, id) ==
  GrassOf(createInstancedGeometry(populateInstanceAttributes(heightData, cx, cz, offsetX, offsetZ, rng)),
          id)

----------------------------------------------------------------------------
(* The chunk store: a JavaScript Map keeps its entries in insertion order;  *)
(* set() on a present key replaces the value in place, delete() removes the *)
(* entry, and iteration visits the entries in order.                        *)

\* makeKey(cx, cz) = [cx, cz].join(','); key.split(',').map(Number) gives the pair back
makeKey(cx, cz) == <<cx, cz>>

KeyOf(chunk) == makeKey(chunk.cx, chunk.cz)

Keys(store) == {KeyOf(store[i]) : i \in 1..Len(store)}

\* this.chunks.has(key)
Has(store, key) == \E i \in 1..Len(store) : KeyOf(store[i]) = key

IndexOfKey(store, key) == CHOOSE i \in 1..Len(store) : KeyOf(store[i]) = key

\* this.chunks.get(key), for a key that is present
Get(store, key) == store[IndexOfKey(store, key)]

\* this.chunks.set(key, chunk)
MapSet(store, chunk) ==
  IF Has(store, KeyOf(chunk))
  THEN [store EXCEPT ![IndexOfKey(store, KeyOf(chunk))] = chunk]
  ELSE Append(store, chunk)

\* this.chunks.delete(key)
MapDelete(store, key) ==
  SelectSeq(store, LAMBDA c : KeyOf(c) # key)

\* variant: the quotient is truncated towards zero
ChunkCoordTruncated(world) ==
  IF world >= 0 THEN world \div (Sub * chunkSize) ELSE -((-world) \div (Sub * chunkSize))

\* floor(floor-free (world / cellSize) / chunkSize) of updateChunks / updatePlayerPosition
ChunkCoord(world) == world \div (Sub * chunkSize)

\* createNoiseMaterial(): a material made for the mesh of chunk object id
createNoiseMaterial(id) == Resource("material", id)

\* the scene nodes of a chunk, in the order addTo attaches them: the grass LOD, the
\* terrain mesh, the objects
ChunkNodes(chunk) ==
  <<<<"grass", chunk.id, 0>>, <<"mesh", chunk.id, 0>>>>
    \o [i \in 1..Len(chunk.objects) |-> <<"object", chunk.id, i>>]

\* parent.remove(node) for every node of `nodes`
RemoveAll(nodes, from) ==
  SelectSeq(from, LAMBDA n : \A i \in 1..Len(nodes) : nodes[i] # n)

\* TerrainChunk.addTo(parent): parent.add(node) detaches the node from its parent, if
\* it has one, and appends it to the children
addTo(chunk, parentChildren) ==
  RemoveAll(ChunkNodes(chunk), parentChildren) \o ChunkNodes(chunk)

\* variant: only the terrain mesh is removed from the parent
DetachMeshOnly(chunk, parentChildren) ==
  RemoveAll(<<<<"mesh", chunk.id, 0>>>>, parentChildren)

\* the parent.remove calls of TerrainChunk.dispose(parent) and of the Grass.dispose it
\* calls: the terrain mesh, the grass LOD and every object are removed
DetachChunk(chunk, parentChildren) == RemoveAll(ChunkNodes(chunk), parentChildren)

\* variant: the material of each level is disposed together with its geometry
GrassDisposeWithMaterial(grass) ==
  {grass.lod[ci].geometry : ci \in 1..Len(grass.lod)}
    \cup {grass.lod[ci].material : ci \in 1..Len(grass.lod)}

\* Grass.dispose(parent): the resources dispose() is called on
GrassDispose(grass) == {grass.lod[ci].geometry : ci \in 1..Len(grass.lod)}

\* the loop over this.objects in TerrainChunk.dispose: the resources dispose() is
\* called on, for one object
ObjectDispose(object) ==
  IF ~object.isMesh THEN {} ELSE {object.geometry, object.material}

\* TerrainChunk.dispose(parent): the resources dispose() is called on
ChunkDispose(chunk) ==
  GrassDispose(chunk.grass)
    \cup UNION {ObjectDispose(chunk.objects[i]) : i \in 1..Len(chunk.objects)}
    \cup {chunk.mesh.material, chunk.mesh.geometry}

\* the part of Terrain.createChunk(cx, cz) that follows the computation of heightData:
\* geometry, grass, objects, and the entry set into this.chunks
BuildChunk(st, cx, cz, rng, heightData) ==
  LET offsetX == cx * chunkSize
      offsetZ == cz * chunkSize
      trees == generateTreesForChunk(st.perm, heightData, cx, cz, offsetX, offsetZ, rng)
      flowers == generateFlowersForChunk(st.perm, heightData, cx, cz, offsetX, offsetZ, rng)
      key == makeKey(cx, cz)
      chunk == [cx |-> cx, cz |-> cz, id |-> st.nextId,
                offsetX |-> offsetX, offsetZ |-> offsetZ, width |-> cw, depth |-> cd,
                heightData |-> heightData,
                normals |-> computeVertexNormals(heightData),
                mesh |-> [geometry |-> Resource("geometry", st.nextId),
                          material |-> createNoiseMaterial(st.nextId)],
                grass |-> NewGrass(heightData, cx, cz, offsetX, offsetZ, rng, st.nextId),
                objects |-> trees \o flowers]
  IN  [st EXCEPT !.children = addTo(chunk, st.children),
                 !.failed = st.failed \ {key},
                 !.chunks = MapSet(st.chunks, chunk),
                 !.nextId = st.nextId + 1,
                 !.built = IF key \in DOMAIN st.built THEN st.built
                           ELSE (key :> heightData) @@ st.built,
                 !.events = Append(st.events, <<"create", cx, cz>>)]

\* variant: the grid offset of a chunk is counted in vertices instead of cells
createChunkVertexOffset(st, cx, cz, rng) ==
  BuildChunk(st, cx, cz, rng,
             Sanitize(generateHeight(st.perm, st.noiseRanges, cw, cd, cx * cw, cz * cd)))

\* variant: the noise is reseeded with the number of chunks built so far
createChunkReseeding(st, cx, cz, rng) ==
  BuildChunk(st, cx, cz, rng,
             Sanitize(generateHeight((st.perm + st.nextId) % NumPerms, st.noiseRanges,
                                     cw, cd, cx * chunkSize, cz * chunkSize)))

\* Terrain.createChunk(cx, cz); st is the Terrain state it works on
createChunk(st, cx, cz, rng) ==
  BuildChunk(st, cx, cz, rng,
             Sanitize(generateHeight(st.perm, st.noiseRanges,
                                     cw, cd, cx * chunkSize, cz * chunkSize)))

\* Terrain.disposeChunk(cx, cz)
disposeChunk(st, cx, cz) ==
  LET key == makeKey(cx, cz)
  IN  IF ~Has(st.chunks, key) THEN st
      ELSE [st EXCEPT !.children = DetachChunk(Get(st.chunks, key), st.children),
                      !.disposedResources =
                         st.disposedResources \cup ChunkDispose(Get(st.chunks, key)),
                      !.disposed = st.disposed \cup {Get(st.chunks, key).id},
                      !.chunks = MapDelete(st.chunks, key),
                      !.events = Append(st.events, <<"dispose", cx, cz>>)]

\* (a + b) * 0.5 stored into the Float32Array: the mean, rounded to the grid (ties to even)
Mean(a, b) ==
  LET s == a + b
      lo == (s - 1) \div 2
  IN  IF s % 2 = 0 THEN s \div 2 ELSE IF lo % 2 = 0 THEN lo ELSE lo + 1

MeanNormal(na, nb) == <<Mean(na[1], nb[1]), Mean(na[2], nb[2]), Mean(na[3], nb[3])>>

\* the +X loop of smoothChunkBorders: right edge of chunk ia with left edge of chunk ib
MergeX(store, ia, ib) ==
  LET arrayA == store[ia].normals
      arrayB == store[ib].normals
      newA == [i \in DOMAIN arrayA |->
                 IF (i - 1) % cw = cw - 1
                 THEN MeanNormal(arrayA[i], arrayB[VIndex(0, (i - 1) \div cw)])
                 ELSE arrayA[i]]
      newB == [i \in DOMAIN arrayB |->
                 IF (i - 1) % cw = 0
                 THEN MeanNormal(arrayA[VIndex(cw - 1, (i - 1) \div cw)], arrayB[i])
                 ELSE arrayB[i]]
  IN  [store EXCEPT ![ia].normals = newA, ![ib].normals = newB]

\* the +Z loop of smoothChunkBorders: far edge of chunk ia with near edge of chunk ib
MergeZ(store, ia, ib) ==
  LET arrayA == store[ia].normals
      arrayB == store[ib].normals
      newA == [i \in DOMAIN arrayA |->
                 IF (i - 1) \div cw = cd - 1
                 THEN MeanNormal(arrayA[i], arrayB[VIndex((i - 1) % cw, 0)])
                 ELSE arrayA[i]]
      newB == [i \in DOMAIN arrayB |->
                 IF (i - 1) \div cw = 0
                 THEN MeanNormal(arrayA[VIndex((i - 1) % cw, cd - 1)], arrayB[i])
                 ELSE arrayB[i]]
  IN  [store EXCEPT ![ia].normals = newA, ![ib].normals = newB]

\* variant: a chunk is stitched only when its +X and its +Z neighbour are both loaded
SmoothOneBothRequired(store, k) ==
  LET rightKey == makeKey(store[k].cx + 1, store[k].cz)
      farKey == makeKey(store[k].cx, store[k].cz + 1)
  IN  IF Has(store, rightKey) /\ Has(store, farKey)
      THEN MergeZ(MergeX(store, k, IndexOfKey(store, rightKey)), k, IndexOfKey(store, farKey))
      ELSE store

\* one iteration of the loop over this.chunks.keys() in smoothChunkBorders
SmoothOne(store, k) ==
  LET cx == store[k].cx
      cz == store[k].cz
      rightKey == makeKey(cx + 1, cz)
      afterX == IF Has(store, rightKey) THEN MergeX(store, k, IndexOfKey(store, rightKey))
                ELSE store
      farKey == makeKey(cx, cz + 1)
  IN  IF Has(afterX, farKey) THEN MergeZ(afterX, k, IndexOfKey(afterX, farKey))
      ELSE afterX

\* the loop over this.chunks.keys() in smoothChunkBorders, for the entries lo..hi in
\* order (the range is split in halves, the first half running before the second)
RECURSIVE SmoothLoop(_, _, _)
SmoothLoop(store, lo, hi) ==
  IF lo > hi THEN store
  ELSE IF lo = hi THEN SmoothOne(store, lo)
  ELSE LET mid == (lo + hi) \div 2
           first == SmoothLoop(store, lo, mid)
       IN  \* stitching keeps every entry; the test has the first half evaluated first
           IF Len(first) = Len(store) THEN SmoothLoop(first, mid + 1, hi) ELSE first

\* Terrain.smoothChunkBorders(); the event keeps, as history, the normal arrays of the
\* entries as they were when the call began
smoothChunkBorders(st) ==
  [st EXCEPT !.chunks = SmoothLoop(st.chunks, 1, Len(st.chunks)),
             !.events = Append(st.events,
                               <<"smooth", [k \in 1..Len(st.chunks) |-> st.chunks[k].normals]>>)]

side == chunkRadius * 2 + 1
total == side * side

\* the wanted set of updateChunks
Wanted(centerCX, centerCZ) ==
  {makeKey(centerCX + (index % side) - chunkRadius, centerCZ + (index \div side) - chunkRadius) :
     index \in 0..(total - 1)}

\* variant: the first loop builds a chunk for every wanted key, present or not
CreateOneAlways(st, centerCX, centerCZ, rng, index) ==
  createChunk(st, centerCX + (index % side) - chunkRadius,
              centerCZ + (index \div side) - chunkRadius, rng)

\* one iteration of the first loop of updateChunks
CreateOne(st, centerCX, centerCZ, rng, index) ==
  LET dx == (index % side) - chunkRadius
      dz == (index \div side) - chunkRadius
      cx == centerCX + dx
      cz == centerCZ + dz
      key == makeKey(cx, cz)
  IN  IF ~Has(st.chunks, key) THEN createChunk(st, cx, cz, rng) ELSE st

\* the first loop of updateChunks, for index = lo..hi in order (the range is split in
\* halves, the first half running before the second)
RECURSIVE CreateWanted(_, _, _, _, _, _)
CreateWanted(st, centerCX, centerCZ, rng, lo, hi) ==
  IF lo > hi THEN st
  ELSE IF lo = hi THEN CreateOne(st, centerCX, centerCZ, rng, lo)
  ELSE LET mid == (lo + hi) \div 2
           first == CreateWanted(st, centerCX, centerCZ, rng, lo, mid)
       IN  \* the counter never decreases; the test has the first half evaluated first
           IF first.nextId >= st.nextId
           THEN CreateWanted(first, centerCX, centerCZ, rng, mid + 1, hi)
           ELSE first

\* variant: the loop advances past the entry that follows each deleted one
UnwantedSkipping(store, wanted) ==
  LET all == SelectSeq([k \in 1..Len(store) |-> KeyOf(store[k])], LAMBDA key : key \notin wanted)
  IN  [i \in 1..((Len(all) + 1) \div 2) |-> all[2 * i - 1]]

\* variant: the store is trimmed to `total` entries, the oldest entries going first
UnwantedOldest(store, wanted) ==
  [i \in 1..Max(0, Len(store) - total) |-> KeyOf(store[i])]

\* the keys the second loop of updateChunks disposes, in the order of this.chunks.keys()
\* (a Map iterator visits every entry that is still present, deletions included)
Unwanted(store, wanted) ==
  SelectSeq([k \in 1..Len(store) |-> KeyOf(store[k])], LAMBDA key : key \notin wanted)

\* the second loop of updateChunks: disposeChunk for the keys lo..hi of `keys` in order
RECURSIVE DisposeUnwanted(_, _, _, _)
DisposeUnwanted(st, keys, lo, hi) ==
  IF lo > hi THEN st
  ELSE IF lo = hi THEN disposeChunk(st, keys[lo][1], keys[lo][2])
  ELSE LET mid == (lo + hi) \div 2
           first == DisposeUnwanted(st, keys, lo, mid)
       IN  \* disposal adds no entry; the test has the first half evaluated first
           IF Len(first.chunks) <= Len(st.chunks)
           THEN DisposeUnwanted(first, keys, mid + 1, hi)
           ELSE first

\* disposeChunk for every key of `keys`, in order
DisposeAll(st, keys) == DisposeUnwanted(st, keys, 1, Len(keys))

\* the second loop of updateChunks as a whole
Evict(st, wanted) ==
  DisposeAll(st, Unwanted(st.chunks, wanted))

\* variant: eviction runs before creation
updateChunksEvictFirst(st, playerX, playerZ, rng) ==
  smoothChunkBorders(
    CreateWanted(Evict(st, Wanted(ChunkCoord(playerX), ChunkCoord(playerZ))),
                 ChunkCoord(playerX), ChunkCoord(playerZ), rng, 0, total - 1))

\* Terrain.updateChunks(playerX, playerZ)
updateChunks(st, playerX, playerZ, rng) ==
  smoothChunkBorders(
    Evict(CreateWanted(st, ChunkCoord(playerX), ChunkCoord(playerZ), rng, 0, total - 1),
          Wanted(ChunkCoord(playerX), ChunkCoord(playerZ))))

\* variant: createChunk throws after chunk.addTo(this) and this.chunks.set(key, chunk)
updateChunksThrowingLate(st, playerX, playerZ, rng, failAt) ==
  LET centerCX == ChunkCoord(playerX)
      centerCZ == ChunkCoord(playerZ)
      cx == centerCX + (failAt % side) - chunkRadius
      cz == centerCZ + (failAt \div side) - chunkRadius
      reached == CreateWanted(st, centerCX, centerCZ, rng, 0, failAt)
  IN  [reached EXCEPT !.failed = reached.failed \cup {makeKey(cx, cz)},
                      !.events = Append(reached.events, <<"fail", cx, cz>>)]

\* Terrain.updateChunks(playerX, playerZ) when the createChunk call made at index failAt
\* of the first loop throws: the iterations before it have run, the exception leaves
\* createChunk before chunk.addTo(this) and this.chunks.set(key, chunk), and nothing
\* of updateChunks runs after it
updateChunksThrowing(st, playerX, playerZ, rng, failAt) ==
  LET centerCX == ChunkCoord(playerX)
      centerCZ == ChunkCoord(playerZ)
      cx == centerCX + (failAt % side) - chunkRadius
      cz == centerCZ + (failAt \div side) - chunkRadius
      reached == CreateWanted(st, centerCX, centerCZ, rng, 0, failAt - 1)
  IN  [reached EXCEPT !.failed = reached.failed \cup {makeKey(cx, cz)},
                      !.events = Append(reached.events, <<"fail", cx, cz>>)]

\* the first loop of updateChunks calls createChunk at index failAt
CallsCreateChunkAt(st, playerX, playerZ, failAt) ==
  ~Has(st.chunks, makeKey(ChunkCoord(playerX) + (failAt % side) - chunkRadius,
                          ChunkCoord(playerZ) + (failAt \div side) - chunkRadius))

\* variant: the row stride is the cell count of the chunk instead of its vertex count
ChunkSampleCellHeightStride(chunk, ix, iz) ==
  LET lx == ix - chunk.offsetX
      lz == iz - chunk.offsetZ
  IN  IF lx < 0 \/ lz < 0 \/ lx >= chunk.width \/ lz >= chunk.depth THEN 0
      ELSE OrZero(chunk.heightData, lx + lz * (chunk.width - 1) + 1)

\* TerrainChunk.sampleCellHeight(ix, iz)
ChunkSampleCellHeight(chunk, ix, iz) ==
  LET lx == ix - chunk.offsetX
      lz == iz - chunk.offsetZ
  IN  IF lx < 0 \/ lz < 0 \/ lx >= chunk.width \/ lz >= chunk.depth THEN 0
      ELSE OrZero(chunk.heightData, lx + lz * chunk.width + 1)

\* variant: a chunk whose grass is culled counts as not loaded
sampleCellHeightVisibleOnly(store, ix, iz) ==
  LET key == makeKey(ix \div chunkSize, iz \div chunkSize)
  IN  IF ~Has(store, key) THEN 0
      ELSE IF ~Get(store, key).grass.visible THEN 0
      ELSE ChunkSampleCellHeight(Get(store, key), ix, iz)

\* Terrain.sampleCellHeight(ix, iz)
sampleCellHeight(store, ix, iz) ==
  LET cx == ix \div chunkSize
      cz == iz \div chunkSize
      key == makeKey(cx, cz)
  IN  IF ~Has(store, key) THEN 0 ELSE ChunkSampleCellHeight(Get(store, key), ix, iz)

\* variant: the chunk owning (ix, iz) is looked up once and answers all four corners
getHeightAtSingleOwner(store, x, z) ==
  LET ix == x \div Sub
      iz == z \div Sub
      tx == x % Sub
      tz == z % Sub
      key == makeKey(ix \div chunkSize, iz \div chunkSize)
      corner(i, j) == IF ~Has(store, key) THEN 0
                      ELSE ChunkSampleCellHeight(Get(store, key), i, j) * heightScale
      h1 == corner(ix, iz) * (Sub - tx) + corner(ix + 1, iz) * tx
      h2 == corner(ix, iz + 1) * (Sub - tx) + corner(ix + 1, iz + 1) * tx
  IN  h1 * (Sub - tz) + h2 * tz

\* Terrain.getHeightAt(x, z); the result is a numerator over YDen
getHeightAt(store, x, z) ==
  LET ix == x \div Sub
      iz == z \div Sub
      tx == x % Sub
      tz == z % Sub
      h11 == sampleCellHeight(store, ix, iz) * heightScale
      h21 == sampleCellHeight(store, ix + 1, iz) * heightScale
      h12 == sampleCellHeight(store, ix, iz + 1) * heightScale
      h22 == sampleCellHeight(store, ix + 1, iz + 1) * heightScale
      h1 == h11 * (Sub - tx) + h21 * tx
      h2 == h12 * (Sub - tx) + h22 * tx
  IN  h1 * (Sub - tz) + h2 * tz

\* Grass.update(cameraPos): distance > cullDistanceSq with cullDistanceSq = 400 * 400,
\* the squared distance taken between the chunk centre and the camera
\* (world units: cellSize = 4096 / 199; both sides divided by 4 * 256)
GrassUpdate(chunk, camX, camZ) ==
  LET dx == Center(chunk.offsetX) - camX
      dz == Center(chunk.offsetZ) - camZ
      distance == dx * dx + dz * dz
  IN  [chunk EXCEPT !.grass.visible = ~(distance * 16384 > 625 * 199 * 199 * SubHalf * SubHalf)]

\* Terrain.update(camera, delta)
TerrainUpdate(store, camX, camZ) ==
  [k \in 1..Len(store) |-> GrassUpdate(store[k], camX, camZ)]

----------------------------------------------------------------------------
(* State machine *)

Perms == 0..(NumPerms - 1)

\* world width of one chunk in units of cellSize / Sub
CW == chunkSize * Sub

\* player positions (x, z): inside chunk (0,0), at negative coordinates, two chunks
\* to the east, and diagonally in chunk (1,1)
Positions == {<<0, 0>>, <<CW - 1, 1>>, <<-1, -1>>, <<2 * CW, 0>>, <<CW, CW>>}

\* points queried with getHeightAt: on the edge between chunks (0,0) and (1,0), on the
\* edge between (0,0) and (0,1), on the edge between (0,1) and (1,1) in its last
\* cell row, at the corner where four chunks meet, and at negative coordinates
QueryPoints == {<<CW, 1>>, <<1, CW>>, <<CW, 2 * CW - 1>>, <<CW, CW>>, <<-1, -1>>}

\* camera positions of update(camera, delta): near the origin and far away
CameraPositions == {<<0, 0>>, <<25 * Sub, 0>>}

\* the Terrain fields the streaming code works on, as one record
TerrainState ==
  [chunks |-> chunks, nextId |-> nextId, disposed |-> disposed, built |-> built,
   children |-> children, disposedResources |-> disposedResources, failed |-> failed,
   events |-> <<>>, perm |-> perm, noiseRanges |-> noiseRanges]

\* the state of a Terrain whose fields have been initialised, before the
\* constructor's updateChunks(0, 0)
FreshState(p) ==
  [chunks |-> <<>>, nextId |-> 0, disposed |-> {}, built |-> <<>>, events |-> <<>>,
   children |-> <<>>, disposedResources |-> {}, failed |-> {},
   perm |-> p,
   noiseRanges |-> computeNoiseRanges(p, chunkSize * sampleChunks, chunkSize * sampleChunks)]

Install(st) ==
  /\ chunks' = st.chunks
  /\ nextId' = st.nextId
  /\ disposed' = st.disposed
  /\ children' = st.children
  /\ disposedResources' = st.disposedResources
  /\ failed' = st.failed
  /\ built' = st.built
  /\ events' = st.events

\* the fields as the constructor's updateChunks(0, 0) leaves them
Constructed(st) ==
  /\ chunks = st.chunks
  /\ nextId = st.nextId
  /\ disposed = st.disposed
  /\ children = st.children
  /\ disposedResources = st.disposedResources
  /\ failed = st.failed
  /\ built = st.built
  /\ events = st.events
  /\ noiseRanges = st.noiseRanges

\* Terrain.constructor
Init ==
  \E p \in Perms, rng \in RandSeeds :
    /\ updates = 0
    /\ perm = p
    /\ firstQuery = NoValue
    /\ call = [op |-> "constructor", x |-> 0, z |-> 0, result |-> 0]
    /\ probe = NoValue
    /\ Constructed(updateChunks(FreshState(p), 0, 0, rng))
    /\ lastChunkX = ChunkCoord(0)
    /\ lastChunkZ = ChunkCoord(0)

\* variant: only the Z coordinate is compared
ChunkChangedZOnly(cx, cz) == lastChunkZ # cz

\* the test of updatePlayerPosition: this.lastChunkX !== cx || this.lastChunkZ !== cz
ChunkChanged(cx, cz) == lastChunkX # cx \/ lastChunkZ # cz

\* a direct call of the public Terrain.updateChunks(playerX, playerZ)
UpdateChunks ==
  \E pos \in Positions, rng \in RandSeeds :
    /\ updates < MaxUpdates
    /\ Install(updateChunks(TerrainState, pos[1], pos[2], rng))
    /\ updates' = updates + 1
    /\ call' = [op |-> "updateChunks", x |-> pos[1], z |-> pos[2], result |-> 0]
    /\ firstQuery' = NoValue
    /\ UNCHANGED <<lastChunkX, lastChunkZ, noiseRanges, perm, probe>>

\* Terrain.updatePlayerPosition(position), the chunk coordinate has changed
UpdatePlayerPositionMoved ==
  \E pos \in Positions, rng \in RandSeeds :
    LET cx == ChunkCoord(pos[1])
        cz == ChunkCoord(pos[2])
    IN  /\ ChunkChanged(cx, cz)
        /\ updates < MaxUpdates
        /\ lastChunkX' = cx
        /\ lastChunkZ' = cz
        /\ Install(updateChunks(TerrainState, pos[1], pos[2], rng))
        /\ updates' = updates + 1
        /\ call' = [op |-> "updatePlayerPosition", x |-> pos[1], z |-> pos[2], result |-> 0]
        /\ firstQuery' = NoValue
        /\ UNCHANGED <<noiseRanges, perm, probe>>

\* Terrain.updatePlayerPosition(position), the chunk coordinate is the recorded one
UpdatePlayerPositionSame ==
  \E pos \in Positions :
    LET cx == ChunkCoord(pos[1])
        cz == ChunkCoord(pos[2])
    IN  /\ ~ChunkChanged(cx, cz)
        /\ events' = <<>>
        /\ call' = [op |-> "updatePlayerPosition", x |-> pos[1], z |-> pos[2], result |-> 0]
        /\ UNCHANGED <<chunks, lastChunkX, lastChunkZ, noiseRanges, perm, nextId, disposed,
                       failed, children, disposedResources, built, firstQuery, updates, probe>>

\* Terrain.getHeightAt(x, z)
GetHeightAt ==
  \E q \in QueryPoints :
    LET value == getHeightAt(chunks, q[1], q[2])
    IN  /\ call' = [op |-> "getHeightAt", x |-> q[1], z |-> q[2], result |-> value]
        /\ firstQuery' = IF firstQuery = NoValue
                         THEN [x |-> q[1], z |-> q[2], result |-> value,
                               frames |-> FALSE, again |-> FALSE]
                         ELSE IF firstQuery.x = q[1] /\ firstQuery.z = q[2]
                         THEN [firstQuery EXCEPT !.again = TRUE]
                         ELSE firstQuery
        /\ events' = <<>>
        /\ UNCHANGED <<chunks, lastChunkX, lastChunkZ, noiseRanges, perm, nextId, disposed,
                       failed, children, disposedResources, built, updates, probe>>

\* Terrain.update(camera, delta), once per frame
Update ==
  \E cam \in CameraPositions :
    /\ chunks' = TerrainUpdate(chunks, cam[1], cam[2])
    /\ call' = [op |-> "update", x |-> cam[1], z |-> cam[2], result |-> 0]
    /\ events' = <<>>
    /\ firstQuery' = IF firstQuery = NoValue THEN firstQuery
                     ELSE [firstQuery EXCEPT !.frames = TRUE]
    /\ UNCHANGED <<lastChunkX, lastChunkZ, noiseRanges, perm, nextId, disposed,
                   failed, children, disposedResources, built, updates, probe>>

Next ==
  \/ UpdateChunks
  \/ UpdatePlayerPositionMoved
  \/ UpdatePlayerPositionSame

\* streaming driven by the player position alone
Spec == Init /\ [][Next]_vars

\* height queries and per-frame updates, between changes of the chunk set
NextQuery ==
  \/ updates < MaxQueryUpdates /\ UpdateChunks
  \/ GetHeightAt
  \/ Update

SpecQuery == Init /\ [][NextQuery]_vars

\* Terrain.updatePlayerPosition(position), the chunk coordinate has changed and a
\* createChunk call of updateChunks throws: lastChunkX and lastChunkZ are assigned
\* before updateChunks is called
UpdatePlayerPositionThrowing ==
  \E pos \in Positions, rng \in RandSeeds, failAt \in 0..(total - 1) :
    LET cx == ChunkCoord(pos[1])
        cz == ChunkCoord(pos[2])
    IN  /\ ChunkChanged(cx, cz)
        /\ updates < MaxUpdates
        /\ CallsCreateChunkAt(TerrainState, pos[1], pos[2], failAt)
        /\ lastChunkX' = cx
        /\ lastChunkZ' = cz
        /\ Install(updateChunksThrowing(TerrainState, pos[1], pos[2], rng, failAt))
        /\ updates' = updates + 1
        /\ call' = [op |-> "updatePlayerPosition", x |-> pos[1], z |-> pos[2], result |-> 0]
        /\ firstQuery' = NoValue
        /\ UNCHANGED <<noiseRanges, perm, probe>>

\* a direct call of Terrain.updateChunks(playerX, playerZ) in which createChunk throws
UpdateChunksThrowing ==
  \E pos \in Positions, rng \in RandSeeds, failAt \in 0..(total - 1) :
    /\ updates < MaxUpdates
    /\ CallsCreateChunkAt(TerrainState, pos[1], pos[2], failAt)
    /\ Install(updateChunksThrowing(TerrainState, pos[1], pos[2], rng, failAt))
    /\ updates' = updates + 1
    /\ call' = [op |-> "updateChunks", x |-> pos[1], z |-> pos[2], result |-> 0]
    /\ firstQuery' = NoValue
    /\ UNCHANGED <<lastChunkX, lastChunkZ, noiseRanges, perm, probe>>

NextFail ==
  \/ UpdateChunks
  \/ UpdatePlayerPositionMoved
  \/ UpdatePlayerPositionSame
  \/ UpdateChunksThrowing
  \/ UpdatePlayerPositionThrowing

\* streaming in which any createChunk call may throw
SpecFail == Init /\ [][NextFail]_vars

\* a chunk about to be given its trees, the density at its centre being any of the
\* values Math.max(0, Math.min(1, ...)) yields, in hundredths
InitTrees ==
  \E d \in 0..100, p \in Perms, rng \in RandSeeds :
    /\ probe = [stage |-> "density", densityNormalized |-> d]
    /\ updates = 0
    /\ perm = p
    /\ firstQuery = NoValue
    /\ call = [op |-> "constructor", x |-> 0, z |-> 0, result |-> 0]
    /\ Constructed(updateChunks(FreshState(p), 0, 0, rng))
    /\ lastChunkX = ChunkCoord(0)
    /\ lastChunkZ = ChunkCoord(0)

\* the tree count of generateTreesForChunk and of the original Terrain.createChunk
\* for the density of the probe
CountTrees ==
  /\ probe.stage = "density"
  /\ probe' = [stage |-> "counted", densityNormalized |-> probe.densityNormalized,
               treeCount |-> TreeCountOf(probe.densityNormalized),
               original |-> OriginalTreeCountOf(probe.densityNormalized)]
  /\ UNCHANGED <<chunks, lastChunkX, lastChunkZ, noiseRanges, perm, nextId, disposed,
                 failed, children, disposedResources, built, events, call, firstQuery, updates>>

\* the tree count policy under an arbitrary density
SpecTrees == InitTrees /\ [][CountTrees]_vars

\* the fields of a Terrain that is not part of the run: an object of another class is
\* followed on its own, in `probe`
WithoutTerrain ==
  /\ chunks = <<>>
  /\ nextId = 0
  /\ disposed = {}
  /\ failed = {}
  /\ children = <<>>
  /\ disposedResources = {}
  /\ built = <<>>
  /\ events = <<>>
  /\ perm = 0
  /\ noiseRanges = [hillMin |-> 0, hillMax |-> 0, detailMin |-> 0, detailMax |-> 0]
  /\ updates = 0
  /\ firstQuery = NoValue
  /\ call = [op |-> "constructor", x |-> 0, z |-> 0, result |-> 0]
  /\ lastChunkX = NoValue
  /\ lastChunkZ = NoValue

\* most candidate blades of a GrassChunk (the `instances` of its constructor)
MaxInstances == 6

\* most Grass objects constructed in a run that follows the grass module alone
MaxGrass == 3

\* most Space presses that add jumpVelocity in a run that follows the Player
MaxJumps == 2

\* new GrassChunk(...): underwater[i] tells whether candidate i - 1 has
\* y <= waterLevel + 0.5; such a candidate pushes a dummy element at its slot, any
\* other pushes its blade and counts as placed; the index attribute has one entry per
\* candidate, and instanceCount = placedCount
NewGrassChunk(underwater) ==
  LET slots == [i \in 1..Len(underwater) |-> IF underwater[i] THEN "dummy" ELSE "blade"]
      placedCount == Cardinality({i \in 1..Len(slots) : slots[i] = "blade"})
  IN  [stage |-> "grassChunk", slots |-> slots, indexCount |-> Len(slots),
       placed |-> placedCount, instanceCount |-> placedCount, updated |-> FALSE]

\* density of GrassChunk.update for a camera distance, in hundredths
LodDensity(distance) ==
  IF distance > 350 THEN 0
  ELSE IF distance > 200 THEN 15
  ELSE IF distance > 80 THEN 50
  ELSE 100

\* a GrassChunk right after construction, for any number of candidates and any
\* candidates being underwater
InitGrassChunk ==
  \E n \in 1..MaxInstances :
    \E underwater \in [1..n -> BOOLEAN] :
      /\ probe = NewGrassChunk(underwater)
      /\ WithoutTerrain

\* GrassChunk.update(delta, cameraPos, skyController), the camera at a distance on
\* either side of a LOD limit:
\* instanceCount = max(0, floor(total * density)), total the count of the index attribute
GrassChunkUpdate ==
  \E distance \in {0, 80, 81, 200, 201, 350, 351} :
    /\ probe.stage = "grassChunk"
    /\ probe' = [probe EXCEPT
                   !.instanceCount = Max(0, (probe.indexCount * LodDensity(distance)) \div 100),
                   !.updated = TRUE]
    /\ UNCHANGED <<chunks, lastChunkX, lastChunkZ, noiseRanges, perm, nextId, disposed,
                   failed, children, disposedResources, built, events, call, firstQuery,
                   updates>>

\* one GrassChunk under per-frame updates
SpecGrassChunk == InitGrassChunk /\ [][GrassChunkUpdate]_vars

\* the class DaffodilFlower is a Flower like the others, with a model of its own
DaffodilFlowerKey ==
  <<"/src/assets/models/daffodil_flower/", "daffodil_flower.mtl", "daffodil_flower.obj">>

\* the key of Flower.loadOBJModel, `${basePath}|${mtlFile}|${objectFile}`, for the
\* constants MODEL_PATH, MTL_FILE and OBJ_FILE a class passes to loadAndAttachOBJModel
ModelKey(class) ==
  CASE class = "Daisy" ->
         <<"/src/assets/models/daisy/", "10441_Daisy_v1_max2010_iteration-2.mtl",
           "10441_Daisy_v1_max2010_iteration-2.obj">>
    [] class = "AnemoneFlower" ->
         <<"/src/assets/models/anemone_flower/", "12973_anemone_flower_v1_l2.mtl",
           "12973_anemone_flower_v1_l2.obj">>
    [] class = "CrocusFlower" ->
         <<"/src/assets/models/crocus_flower/", "12974_crocus_flower_v1_l3.mtl",
           "12974_crocus_flower_v1_l3.obj">>
    [] class = "DaffodilFlower" -> DaffodilFlowerKey
    [] class = "DandelionFlower" ->
         <<"/src/assets/models/dandelion_flower/", "12971_Dandelion_Flower_v1_l2.mtl",
           "12971_Dandelion_Flower_v1_l2.obj">>
    [] class = "SnowdropFlower" ->
         <<"/src/assets/models/snowdrop_flower/", "12970_snowdrop_flower_v1_l2.mtl",
           "12970_snowdrop_flower_v1_l2.obj">>
    [] class = "Rock" -> <<"/src/assets/models/rock/", "Rock1.mtl", "Rock1.obj">>

ModelKeys == {ModelKey(flowerConstructors[i]) : i \in 1..Len(flowerConstructors)}

\* Flower.modelCache when the module has been loaded: no key has an entry; with it the
\* number of times the loaders were started per key, and the Flower instances made
NoLoads ==
  [stage |-> "loads",
   modelCache |-> [key \in ModelKeys |-> "absent"],
   loaderStarts |-> [key \in ModelKeys |-> 0],
   instances |-> <<>>]

\* variant: a cached promise that has been rejected is replaced by a new load
loadOBJModelRetrying(loads, key) ==
  IF loads.modelCache[key] \in {"pending", "fulfilled"} THEN loads
  ELSE [loads EXCEPT !.modelCache[key] = "pending", !.loaderStarts[key] = @ + 1]

\* Flower.loadOBJModel(basePath, mtlFile, objectFile): the cached promise if the key
\* has one (in whatever state), otherwise a new promise whose executor starts the
\* MTLLoader, stored under the key
loadOBJModel(loads, key) ==
  IF loads.modelCache[key] # "absent" THEN loads
  ELSE [loads EXCEPT !.modelCache[key] = "pending", !.loaderStarts[key] = @ + 1]

\* the constructor of a Flower subclass: super(), then loadAndAttachOBJModel(...) up to
\* its await, then .catch(console.error) on the promise it returned; `node` is the
\* scene node of the new group, `found` (history) what the cache held for the key
ConstructFlower(loads, class, node) ==
  LET started == loadOBJModel(loads, ModelKey(class))
  IN  [started EXCEPT !.instances =
         Append(@, [node |-> node, class |-> class, status |-> "awaiting",
                    children |-> <<>>, detached |-> FALSE,
                    found |-> loads.modelCache[ModelKey(class)]])]

\* the Flower constructors run by the createChunk calls that made the chunk objects
\* firstId and later, in the order of the calls: those of the entries before entry k of
\* the store and of the first n objects of entry k
RECURSIVE ConstructFlowersIn(_, _, _, _, _)
ConstructFlowersIn(loads, store, firstId, k, n) ==
  IF k = 0 THEN loads
  ELSE IF n = 0
  THEN ConstructFlowersIn(loads, store, firstId, k - 1,
                          IF k > 1 THEN Len(store[k - 1].objects) ELSE 0)
  ELSE LET before == ConstructFlowersIn(loads, store, firstId, k, n - 1)
       IN  IF store[k].id >= firstId /\ store[k].objects[n].kind = "flower"
           THEN ConstructFlower(before, store[k].objects[n].class, <<"object", store[k].id, n>>)
           ELSE before

\* variant: the LOD is added to the Terrain group
AttachLodToTerrain(scene, n) ==
  [scene EXCEPT
     !.children = Append(@, <<"lod", scene.instances[n].node[2], scene.instances[n].node[3]>>),
     !.instances[n].status = "attached"]

\* loadAndAttachOBJModel after its await, the promise fulfilled: this.add(lod) on the
\* flower itself; scene holds the children of the Terrain group and the instances
AttachLod(scene, n) ==
  [scene EXCEPT
     !.instances[n].children =
        Append(@, <<"lod", scene.instances[n].node[2], scene.instances[n].node[3]>>),
     !.instances[n].status = "attached"]

\* variant: the error is logged and an LOD is added to the flower all the same
LogErrorAttaching(scene, n) ==
  [scene EXCEPT
     !.instances[n].children =
        Append(@, <<"lod", scene.instances[n].node[2], scene.instances[n].node[3]>>),
     !.instances[n].status = "logged"]

\* loadAndAttachOBJModel after its await, the promise rejected: the promise of the
\* async method is rejected and the handler of .catch(console.error) logs the error
LogError(scene, n) == [scene EXCEPT !.instances[n].status = "logged"]

\* Terrain.constructor, the flowers of its chunks being constructed on the way
InitLoad ==
  \E p \in Perms, rng \in RandSeeds :
    LET st == updateChunks(FreshState(p), 0, 0, rng)
    IN  /\ updates = 0
        /\ perm = p
        /\ firstQuery = NoValue
        /\ call = [op |-> "constructor", x |-> 0, z |-> 0, result |-> 0]
        /\ probe = ConstructFlowersIn(NoLoads, st.chunks, 0, Len(st.chunks),
                                      Len(st.chunks[Len(st.chunks)].objects))
        /\ Constructed(st)
        /\ lastChunkX = ChunkCoord(0)
        /\ lastChunkZ = ChunkCoord(0)

\* Terrain.updatePlayerPosition(position), the chunk coordinate has changed; the
\* constructors of the flowers of the new chunks run inside the call
UpdatePlayerPositionLoading ==
  \E pos \in Positions, rng \in RandSeeds :
    LET cx == ChunkCoord(pos[1])
        cz == ChunkCoord(pos[2])
        st == updateChunks(TerrainState, pos[1], pos[2], rng)
    IN  /\ probe.stage = "loads"
        /\ ChunkChanged(cx, cz)
        /\ updates < MaxUpdates
        /\ lastChunkX' = cx
        /\ lastChunkZ' = cz
        /\ Install(st)
        /\ probe' = ConstructFlowersIn(probe, st.chunks, nextId, Len(st.chunks),
                                       Len(st.chunks[Len(st.chunks)].objects))
        /\ updates' = updates + 1
        /\ call' = [op |-> "updatePlayerPosition", x |-> pos[1], z |-> pos[2], result |-> 0]
        /\ firstQuery' = NoValue
        /\ UNCHANGED <<noiseRanges, perm>>

\* the onLoad callback of the OBJLoader: resolve(object)
LoaderSucceeds ==
  \E key \in ModelKeys :
    /\ probe.stage = "loads"
    /\ probe.modelCache[key] = "pending"
    /\ probe' = [probe EXCEPT !.modelCache[key] = "fulfilled"]
    /\ UNCHANGED <<chunks, lastChunkX, lastChunkZ, noiseRanges, perm, nextId, disposed,
                   failed, children, disposedResources, built, events, call, firstQuery,
                   updates>>

\* the onError callback of the MTLLoader or of the OBJLoader: reject(new Error(...))
LoaderFails ==
  \E key \in ModelKeys :
    /\ probe.stage = "loads"
    /\ probe.modelCache[key] = "pending"
    /\ probe' = [probe EXCEPT !.modelCache[key] = "rejected"]
    /\ UNCHANGED <<chunks, lastChunkX, lastChunkZ, noiseRanges, perm, nextId, disposed,
                   failed, children, disposedResources, built, events, call, firstQuery,
                   updates>>

\* one flower resumes after `await loadOBJModel(...)`: with the model when the promise
\* is fulfilled, with the error, which its .catch handler logs, when it is rejected;
\* `detached` (history) tells whether its chunk had been disposed by then
ResumeFlower ==
  \E n \in 1..Len(probe.instances) :
    LET flower == probe.instances[n]
        outcome == probe.modelCache[ModelKey(flower.class)]
        before == [children |-> children, instances |-> probe.instances]
        scene == IF outcome = "fulfilled" THEN AttachLod(before, n) ELSE LogError(before, n)
    IN  /\ probe.stage = "loads"
        /\ flower.status = "awaiting"
        /\ outcome \in {"fulfilled", "rejected"}
        /\ children' = scene.children
        /\ probe' = [probe EXCEPT
                       !.instances = [scene.instances EXCEPT
                                        ![n].detached = flower.node[2] \in disposed]]
        /\ UNCHANGED <<chunks, lastChunkX, lastChunkZ, noiseRanges, perm, nextId, disposed,
                       failed, disposedResources, built, events, call, firstQuery, updates>>

\* streaming interleaved with the callbacks of the model loads
SpecLoad ==
  InitLoad /\ [][UpdatePlayerPositionLoading \/ LoaderSucceeds \/ LoaderFails \/ ResumeFlower]_vars

\* the module variables of grass-common.ts, all null (0) when the module has been
\* loaded; with them the number of objects constructed for each, the identity of the
\* next object constructed, and the Grass objects made
GrassModule ==
  [stage |-> "grassModule",
   shared |-> [name \in {"sharedGrassTexture", "sharedAlphaMap", "baseGeometry",
                          "farBaseGeometry", "crossBaseGeometry", "sharedMaterial"} |-> 0],
   constructed |-> [name \in {"sharedGrassTexture", "sharedAlphaMap", "baseGeometry",
                               "farBaseGeometry", "crossBaseGeometry", "sharedMaterial"} |-> 0],
   nextObject |-> 1,
   grasses |-> <<>>]

\* variant: the object is constructed whether the variable is set or not
EnsureAlways(module, name) ==
  [module EXCEPT !.shared[name] = module.nextObject,
                 !.constructed[name] = @ + 1,
                 !.nextObject = @ + 1]

\* `if (!variable) variable = new ...` of ensureSharedResources, createFarBase,
\* createCrossBase and ensureSharedMaterial
Ensure(module, name) ==
  IF module.shared[name] # 0 THEN module
  ELSE [module EXCEPT !.shared[name] = module.nextObject,
                      !.constructed[name] = @ + 1,
                      !.nextObject = @ + 1]

\* new Grass(options): ensureSharedResources, createInstancedGeometry on baseGeometry,
\* createFarBase, createCrossBase, ensureSharedMaterial, buildLod with what they returned
GrassConstructor(module, centerX, centerZ) ==
  LET resources == Ensure(Ensure(Ensure(module, "sharedGrassTexture"), "sharedAlphaMap"),
                          "baseGeometry")
      far == Ensure(resources, "farBaseGeometry")
      cross == Ensure(far, "crossBaseGeometry")
      material == Ensure(cross, "sharedMaterial")
  IN  [material EXCEPT !.grasses =
         Append(@, [centerX |-> centerX, centerZ |-> centerZ, live |-> TRUE,
                    base |-> resources.shared["baseGeometry"],
                    farBase |-> far.shared["farBaseGeometry"],
                    crossBase |-> cross.shared["crossBaseGeometry"],
                    material |-> material.shared["sharedMaterial"],
                    map |-> material.shared["sharedGrassTexture"],
                    alphaMap |-> material.shared["sharedAlphaMap"]])]

\* the grass module right after it has been loaded
InitGrass == probe = GrassModule /\ WithoutTerrain

\* new Grass(options) for the centre of some chunk
ConstructGrass ==
  \E cx \in -1..1 :
    /\ probe.stage = "grassModule"
    /\ Len(probe.grasses) < MaxGrass
    /\ probe' = GrassConstructor(probe, Center(cx * chunkSize), Center(0))
    /\ UNCHANGED <<chunks, lastChunkX, lastChunkZ, noiseRanges, perm, nextId, disposed,
                   failed, children, disposedResources, built, events, call, firstQuery,
                   updates>>

\* Grass.dispose(parent) of a Grass that is in use: its per-chunk geometries are
\* disposed, no module variable is touched
DisposeGrass ==
  \E g \in 1..Len(probe.grasses) :
    /\ probe.stage = "grassModule"
    /\ probe.grasses[g].live
    /\ probe' = [probe EXCEPT !.grasses[g].live = FALSE]
    /\ UNCHANGED <<chunks, lastChunkX, lastChunkZ, noiseRanges, perm, nextId, disposed,
                   failed, children, disposedResources, built, events, call, firstQuery,
                   updates>>

\* Grass objects constructed and disposed in any order
SpecGrass == InitGrass /\ [][ConstructGrass \/ DisposeGrass]_vars

\* the options app.ts gives the Player, in tenths of a unit of length and tenths of a
\* second: gravity 9.81 * 10, jumpVelocity 2 * 10, height 1.8
gravity == 10
jumpVelocity == 20
height == 18

\* variant: a jump leaves canJump set
handleKeyKeepsCanJump(player, code, down) ==
  IF code = "Space" /\ down /\ player.canJump
  THEN [player EXCEPT !.velocityY = @ + jumpVelocity, !.jumps = @ + 1, !.presses = @ + 1]
  ELSE player

\* Player.handleKey(code, down); `jumps` (history) counts the Space presses that added
\* jumpVelocity since the last update that clamped the player, `presses` all of them
handleKey(player, code, down) ==
  CASE code \in {"ArrowUp", "KeyW"} -> [player EXCEPT !.moveForward = down]
    [] code \in {"ArrowLeft", "KeyA"} -> [player EXCEPT !.moveLeft = down]
    [] code \in {"ArrowDown", "KeyS"} -> [player EXCEPT !.moveBackward = down]
    [] code \in {"ArrowRight", "KeyD"} -> [player EXCEPT !.moveRight = down]
    [] code = "Space" ->
         IF down /\ player.canJump
         THEN [player EXCEPT !.velocityY = @ + jumpVelocity, !.canJump = FALSE,
                             !.jumps = @ + 1, !.presses = @ + 1]
         ELSE player
    [] OTHER -> player

\* the vertical part of Player.update(delta): gravity, the vertical motion, and the
\* clamp to groundY + height, groundY being what groundFn returns for the position the
\* controls have moved the player to
PlayerUpdate(player, delta, groundY) ==
  LET velocityY == player.velocityY - gravity * delta
      y == player.y + velocityY * delta
  IN  IF y < groundY + height
      THEN [player EXCEPT !.velocityY = 0, !.y = groundY + height, !.canJump = TRUE,
                          !.groundY = groundY, !.jumps = 0]
      ELSE [player EXCEPT !.velocityY = velocityY, !.y = y, !.groundY = groundY]

\* new Player(camera, domElement, options), then
\* player.object.position.set(0, terrain.getHeightAt(0, 0) + 1.8, 0) of app.ts
InitPlayer ==
  \E groundY \in {0, 30} :
    /\ probe = [stage |-> "player", y |-> groundY + height, velocityY |-> 0,
                canJump |-> FALSE, moveForward |-> FALSE, moveBackward |-> FALSE,
                moveLeft |-> FALSE, moveRight |-> FALSE,
                groundY |-> groundY, jumps |-> 0, presses |-> 0, last |-> "constructor"]
    /\ WithoutTerrain

\* a keydown or keyup event of the document
KeyEvent ==
  \E code \in {"KeyW", "KeyA", "Space", "KeyQ"}, down \in BOOLEAN :
    /\ probe.stage = "player"
    /\ handleKey(probe, code, down).presses <= MaxJumps
    /\ probe' = [handleKey(probe, code, down) EXCEPT
                   !.last = IF down THEN "keydown" ELSE "keyup"]
    /\ UNCHANGED <<chunks, lastChunkX, lastChunkZ, noiseRanges, perm, nextId, disposed,
                   failed, children, disposedResources, built, events, call, firstQuery,
                   updates>>

\* player.update(delta) of a frame: a frame takes one or two tenths of a second, and
\* the ground below the position reached has any of three heights
PlayerFrame ==
  \E delta \in {1, 2}, groundY \in {0, 30, 60} :
    /\ probe.stage = "player"
    /\ probe' = [PlayerUpdate(probe, delta, groundY) EXCEPT !.last = "update"]
    /\ UNCHANGED <<chunks, lastChunkX, lastChunkZ, noiseRanges, perm, nextId, disposed,
                   failed, children, disposedResources, built, events, call, firstQuery,
                   updates>>

\* the Player under key events and frames in any order
SpecPlayer == InitPlayer /\ [][KeyEvent \/ PlayerFrame]_vars

\* values the noise of one sample takes: not a number, infinite, below, inside and at
\* the ends of the range (raw units of 1/10000)
RawValues == {NaN, NegInf, PosInf, -10000, 0, 3000, 10000}

\* values of the fields of noiseRanges; computeNoiseRanges starts the minima at
\* Infinity and the maxima at -Infinity and leaves them there when no comparison holds
MinValues == {NaN, NegInf, PosInf, 0}
MaxValues == {NaN, NegInf, PosInf, 0, 10000}

\* the Terrain inside its constructor, the ranges computed and no chunk built yet, and
\* the noise values hRaw and dRaw of the sample generateHeight is about to compute
InitHeight ==
  \E hRaw \in RawValues, dRaw \in RawValues,
     hMin \in MinValues, hMax \in MaxValues, dMin \in MinValues, dMax \in MaxValues :
    /\ probe = [stage |-> "input", hRaw |-> hRaw, dRaw |-> dRaw]
    /\ noiseRanges = [hillMin |-> hMin, hillMax |-> hMax, detailMin |-> dMin, detailMax |-> dMax]
    /\ chunks = <<>>
    /\ nextId = 0
    /\ disposed = {}
    /\ children = <<>>
    /\ disposedResources = {}
    /\ failed = {}
    /\ built = <<>>
    /\ events = <<>>
    /\ perm = 0
    /\ updates = 0
    /\ firstQuery = NoValue
    /\ call = [op |-> "constructor", x |-> 0, z |-> 0, result |-> 0]
    /\ lastChunkX = NoValue
    /\ lastChunkZ = NoValue

\* one iteration of the loop of generateHeight, for the noise values of the probe
GenerateSample ==
  LET hill == NormOf(probe.hRaw, noiseRanges.hillMin, noiseRanges.hillMax)
      mask == MaskOf(hill)
      detail == IF Positive(mask)
                THEN NormOf(probe.dRaw, noiseRanges.detailMin, noiseRanges.detailMax)
                ELSE 0
  IN  /\ probe.stage = "input"
      /\ probe' = [stage |-> "generated", hRaw |-> probe.hRaw, dRaw |-> probe.dRaw,
                   hillNorm |-> hill, mask |-> mask, detailNorm |-> detail,
                   out |-> SampleOf(hill, mask, detail)]
      /\ UNCHANGED <<chunks, lastChunkX, lastChunkZ, noiseRanges, perm, nextId, disposed,
                     failed, children, disposedResources, built, events, call, firstQuery, updates>>

\* one iteration of the validation loop of createChunk, for the sample of the probe
SanitizeSample ==
  /\ probe.stage = "generated"
  /\ probe' = [stage |-> "stored", hRaw |-> probe.hRaw, dRaw |-> probe.dRaw,
               hillNorm |-> probe.hillNorm, mask |-> probe.mask,
               detailNorm |-> probe.detailNorm, out |-> probe.out,
               stored |-> SanitizeOne(probe.out)]
  /\ UNCHANGED <<chunks, lastChunkX, lastChunkZ, noiseRanges, perm, nextId, disposed,
                 failed, children, disposedResources, built, events, call, firstQuery, updates>>

NextHeight ==
  \/ GenerateSample
  \/ SanitizeSample

\* one heightData sample under arbitrary noise values and noise ranges
SpecHeight == InitHeight /\ [][NextHeight]_vars

----------------------------------------------------------------------------
(* Properties *)

\* updateChunks ran during the last public call
UpdateChunksRan ==
  \/ call.op \in {"constructor", "updateChunks"}
  \/ call.op = "updatePlayerPosition" /\ events # <<>>

IsCreate(e) == e[1] = "create"
IsDispose(e) == e[1] = "dispose"
IsSmooth(e) == e[1] = "smooth"

\* C1: after a call updateChunks(px, pz) the store holds exactly (2*chunkRadius+1)^2
\* chunks, and every live chunk is within Chebyshev distance chunkRadius of the chunk
\* coordinate (floor(px/cellSize/chunkSize), floor(pz/cellSize/chunkSize)).
C1_SquareAroundPlayer ==
  UpdateChunksRan =>
    LET pcx == call.x \div CW
        pcz == call.z \div CW
    IN  /\ Len(chunks) = (2 * chunkRadius + 1) * (2 * chunkRadius + 1)
        /\ Cardinality(Keys(chunks)) = Len(chunks)
        /\ \A k \in 1..Len(chunks) :
             Max(Abs(chunks[k].cx - pcx), Abs(chunks[k].cz - pcz)) <= chunkRadius

\* C1 witness: a later updateChunks call that both created and disposed chunks
C1_Witness ==
  /\ call.op = "updateChunks"
  /\ \E i \in 1..Len(events) : IsCreate(events[i])
  /\ \E i \in 1..Len(events) : IsDispose(events[i])

\* the normals of chunks a and b agree along the edge x = cw - 1 of a / x = 0 of b
SeamEqualX(a, b) ==
  \A lz \in 0..(cd - 1) : a.normals[VIndex(cw - 1, lz)] = b.normals[VIndex(0, lz)]

\* the normals of chunks a and b agree along the edge z = cd - 1 of a / z = 0 of b
SeamEqualZ(a, b) ==
  \A lx \in 0..(cw - 1) : a.normals[VIndex(lx, cd - 1)] = b.normals[VIndex(lx, 0)]

\* C2: after smoothChunkBorders has run at the end of updateChunks, any two live chunks
\* adjacent in +X or +Z store equal normals at every vertex of their shared edge, the
\* two end vertices of the edge included.
C2_SeamNormalsEqual ==
  UpdateChunksRan =>
    \A i, j \in 1..Len(chunks) :
      /\ (chunks[j].cx = chunks[i].cx + 1 /\ chunks[j].cz = chunks[i].cz)
           => SeamEqualX(chunks[i], chunks[j])
      /\ (chunks[j].cx = chunks[i].cx /\ chunks[j].cz = chunks[i].cz + 1)
           => SeamEqualZ(chunks[i], chunks[j])

\* C6: each coordinate maps to at most one chunk object, every chunk object ever
\* created is either in the store or has been disposed, and no disposed chunk object
\* is in the store.
C6_OneChunkPerCoordinate ==
  /\ \A i, j \in 1..Len(chunks) : KeyOf(chunks[i]) = KeyOf(chunks[j]) => i = j
  /\ \A id \in 0..(nextId - 1) :
       (\E k \in 1..Len(chunks) : chunks[k].id = id) \/ id \in disposed
  /\ \A k \in 1..Len(chunks) : chunks[k].id \notin disposed

\* C6 witness: chunks have been disposed and others built after them
C6_Witness ==
  /\ disposed # {}
  /\ \E k \in 1..Len(chunks) : \E id \in disposed : chunks[k].id > id

\* C7: within one updateChunks call every createChunk comes before the first
\* disposeChunk, and smoothChunkBorders runs once, after the last disposal.
C7_CreateBeforeDispose ==
  /\ \A i, j \in 1..Len(events) :
       (IsDispose(events[i]) /\ IsCreate(events[j])) => j < i
  /\ \A i \in 1..Len(events) : IsSmooth(events[i]) <=> i = Len(events)

\* C7 witness: a call that created chunks, disposed chunks and stitched
C7_Witness ==
  /\ \E i \in 1..Len(events) : IsCreate(events[i])
  /\ \E i \in 1..Len(events) : IsDispose(events[i])
  /\ \E i \in 1..Len(events) : IsSmooth(events[i])

\* C8: updatePlayerPosition(p) runs updateChunks exactly when the chunk coordinate of p
\* differs from the recorded (lastChunkX, lastChunkZ); otherwise it creates nothing,
\* disposes nothing, stitches nothing and keeps the recorded coordinate.  The
\* coordinate recorded by the constructor is (0, 0).
C8_step ==
  call'.op = "updatePlayerPosition" =>
    LET cx == call'.x \div CW
        cz == call'.z \div CW
    IN  IF cx = lastChunkX /\ cz = lastChunkZ
        THEN /\ events' = <<>>
             /\ UNCHANGED <<chunks, nextId, disposed, lastChunkX, lastChunkZ>>
        ELSE /\ events' # <<>>
             /\ IsSmooth(events'[Len(events')])
             /\ lastChunkX' = cx
             /\ lastChunkZ' = cz

C8_TriggerOnChunkChange ==
  /\ (call.op = "constructor" => lastChunkX = 0 /\ lastChunkZ = 0)
  /\ [][C8_step]_vars

\* C8 witness: a per-frame call inside the recorded chunk, right after construction
C8_Witness ==
  /\ call.op = "updatePlayerPosition"
  /\ events = <<>>
  /\ updates = 0
  /\ call.x # 0

Trees(chunk) == SelectSeq(chunk.objects, LAMBDA o : o.kind = "tree")
Flowers(chunk) == SelectSeq(chunk.objects, LAMBDA o : o.kind = "flower")

\* C4: every tree and every flower placed stands where the chunk's height sampler
\* returns a height strictly above waterLevel + 12; a candidate whose sampled height
\* is at or below that is never placed.
C4_ObjectsAboveCutoff ==
  \A k \in 1..Len(chunks) : \A i \in 1..Len(chunks[k].objects) :
    LET o == chunks[k].objects[i]
        c == chunks[k]
    IN  /\ o.y = SampleFromHeightData(c.heightData, c.offsetX, c.offsetZ, o.x, o.z)
        /\ o.y > (waterLevel + 12) * YDen

\* C4 witness: a tree and a flower have been placed, and in some chunk the tree
\* candidates were rejected for their height
C4_Witness ==
  /\ \E k \in 1..Len(chunks) : Len(Trees(chunks[k])) > 0
  /\ \E k \in 1..Len(chunks) : Len(Flowers(chunks[k])) > 0
  /\ \E k \in 1..Len(chunks) :
       treeCount(perm, chunks[k].offsetX, chunks[k].offsetZ) > Len(Trees(chunks[k]))

\* the grass blades placed in a chunk all have a height entry above `level`
BladesAbove(level) ==
  \A k \in 1..Len(chunks) :
    LET g == chunks[k].grass
    IN  /\ g.placedCount = Len(g.offsets)
        /\ \A i \in 1..g.placedCount : g.offsets[i][2] > level * YDen

\* C5 as stated: every placed blade i < placedCount has offsets[3i+1] > waterLevel + 12.
C5_BladesAboveCutoff == BladesAbove(waterLevel + 12)

\* C5: every placed blade i < placedCount has offsets[3i+1] > waterLevel + 12 - 6, the
\* lower end of the band over which the placement probability rises from 0 to 1.
C5_BladesAboveFuzzBand == BladesAbove(waterLevel + 12 - 6)

\* C5 witness: a blade placed inside the band, at or below waterLevel + 12
C5_Witness ==
  \E k \in 1..Len(chunks) : \E i \in 1..chunks[k].grass.placedCount :
    LET y == chunks[k].grass.offsets[i][2]
    IN  y > (waterLevel + 6) * YDen /\ y <= (waterLevel + 12) * YDen

\* C10: the heightData of a chunk is a function of its coordinate: a chunk built again
\* at a coordinate after its eviction has the heightData of the first chunk built there.
C10_HeightDataDeterministic ==
  \A k \in 1..Len(chunks) :
    /\ KeyOf(chunks[k]) \in DOMAIN built
    /\ chunks[k].heightData = built[KeyOf(chunks[k])]

\* C10 witness: a live chunk of the constructor's square that is not one of the
\* chunks the constructor built, so it was evicted and built again
C10_Witness ==
  \E k \in 1..Len(chunks) :
    /\ chunks[k].id >= total
    /\ Abs(chunks[k].cx) <= chunkRadius
    /\ Abs(chunks[k].cz) <= chunkRadius

\* the height sampler of a chunk (makeSampleFromHeightData) applied to world (x, z)
ChunkSampler(c, x, z) == SampleFromHeightData(c.heightData, c.offsetX, c.offsetZ, x, z)

\* (x, z) lies on the edge shared by a and its +X neighbour b
OnEdgeX(a, b, x, z) ==
  /\ b.cx = a.cx + 1 /\ b.cz = a.cz
  /\ x = b.cx * CW
  /\ a.cz * CW <= z /\ z <= (a.cz + 1) * CW

\* (x, z) lies on the edge shared by a and its +Z neighbour b
OnEdgeZ(a, b, x, z) ==
  /\ b.cx = a.cx /\ b.cz = a.cz + 1
  /\ z = b.cz * CW
  /\ a.cx * CW <= x /\ x <= (a.cx + 1) * CW

\* (x, z) is the end point of that edge with the larger coordinate
FarEnd(a, b, x, z) ==
  \/ OnEdgeX(a, b, x, z) /\ z = (a.cz + 1) * CW
  \/ OnEdgeZ(a, b, x, z) /\ x = (a.cx + 1) * CW

\* the four grid points getHeightAt interpolates between all lie in loaded chunks
CornersLoaded(x, z) ==
  \A dx, dz \in {0, 1} :
    Has(chunks, makeKey((x \div Sub + dx) \div chunkSize, (z \div Sub + dz) \div chunkSize))

\* C3 as stated: at a point on the edge shared by loaded chunks A and B (B the +X or
\* +Z neighbour of A), getHeightAt returns the value of A's sampler and of B's sampler.
C3_EdgeAgreesWithBothSamplers ==
  call.op = "getHeightAt" =>
    \A i, j \in 1..Len(chunks) :
      (OnEdgeX(chunks[i], chunks[j], call.x, call.z)
         \/ OnEdgeZ(chunks[i], chunks[j], call.x, call.z))
        => /\ call.result = ChunkSampler(chunks[i], call.x, call.z)
           /\ call.result = ChunkSampler(chunks[j], call.x, call.z)

\* C3: at a point on the edge shared by loaded chunks A and B (B the +X or +Z
\* neighbour of A), A's sampler returns 0, and getHeightAt returns the value of B's
\* sampler when the point is not the far end point of the edge and the four grid
\* points of the interpolation lie in loaded chunks.
C3_EdgeAgreesWithNeighbourSampler ==
  call.op = "getHeightAt" =>
    \A i, j \in 1..Len(chunks) :
      (OnEdgeX(chunks[i], chunks[j], call.x, call.z)
         \/ OnEdgeZ(chunks[i], chunks[j], call.x, call.z))
        => /\ ChunkSampler(chunks[i], call.x, call.z) = 0
           /\ (CornersLoaded(call.x, call.z)
                 /\ ~FarEnd(chunks[i], chunks[j], call.x, call.z))
                => call.result = ChunkSampler(chunks[j], call.x, call.z)

\* C3 witness: a query on a shared edge, off its far end, all four grid points loaded,
\* and the terrain not at height 0 there
C3_Witness ==
  /\ call.op = "getHeightAt"
  /\ call.result # 0
  /\ CornersLoaded(call.x, call.z)
  /\ \E i, j \in 1..Len(chunks) :
       /\ OnEdgeX(chunks[i], chunks[j], call.x, call.z)
       /\ ~FarEnd(chunks[i], chunks[j], call.x, call.z)
       /\ call.result = ChunkSampler(chunks[j], call.x, call.z)
  /\ \E i, j \in 1..Len(chunks) :
       /\ OnEdgeZ(chunks[i], chunks[j], call.x, call.z)
       /\ FarEnd(chunks[i], chunks[j], call.x, call.z)

\* C9: getHeightAt changes no state of the terrain, and a call repeated with the same
\* arguments while the chunk set has not changed returns the value of the first call,
\* whatever update() and getHeightAt calls ran in between.
C9_step ==
  call'.op = "getHeightAt" =>
    /\ UNCHANGED <<chunks, lastChunkX, lastChunkZ, noiseRanges, perm, nextId, disposed>>
    /\ (firstQuery # NoValue /\ firstQuery.x = call'.x /\ firstQuery.z = call'.z)
         => call'.result = firstQuery.result

C9_GetHeightAtPure == [][C9_step]_vars

\* C9 witness: a query repeated at the point of an earlier query, with update() run
\* since that first query, at a point where the terrain is not at height 0
C9_Witness ==
  /\ call.op = "getHeightAt"
  /\ firstQuery # NoValue
  /\ firstQuery.x = call.x /\ firstQuery.z = call.z
  /\ firstQuery.again /\ firstQuery.frames
  /\ call.result # 0
  /\ \E k \in 1..Len(chunks) : ~chunks[k].grass.visible

\* the grid coordinates sampled along one axis by computeNoiseRanges in the constructor
CalibratedAxis ==
  (-((chunkSize * sampleChunks) \div 2))..((chunkSize * sampleChunks) - (chunkSize * sampleChunks) \div 2 - 1)

\* the grid coordinates (x, y) of the heightData samples of chunk c
SampleCoords(c) ==
  {<<c.offsetX + dx, c.offsetZ + dz>> : dx \in 0..(c.width - 1), dz \in 0..(c.depth - 1)}

\* C11: for every grid coordinate (x, y) inside the area sampled by computeNoiseRanges,
\* the values hillNorm = (hRaw - hillMin) / hillRange and
\* detailNorm = (dRaw - detailMin) / detailRange of generateHeight lie in [0, 1].
C11_NormalizedInUnitInterval ==
  \A x \in CalibratedAxis, y \in CalibratedAxis :
    /\ hillNorm(perm, noiseRanges, x, y) \in 0..100
    /\ detailNorm(perm, noiseRanges, x, y) \in 0..100

\* C11 witness: a live chunk has a sample inside the sampled area where the detail
\* noise was used (mask > 0) with both normalised values strictly inside (0, 1), and
\* a live chunk has a sample outside the area whose hillNorm leaves [0, 1]
C11_Witness ==
  /\ \E k \in 1..Len(chunks) : \E c \in SampleCoords(chunks[k]) :
       /\ c[1] \in CalibratedAxis /\ c[2] \in CalibratedAxis
       /\ hillMask(perm, noiseRanges, c[1], c[2]) > 0
       /\ hillNorm(perm, noiseRanges, c[1], c[2]) \in 1..99
       /\ detailNorm(perm, noiseRanges, c[1], c[2]) \in 1..99
  /\ \E k \in 1..Len(chunks) : \E c \in SampleCoords(chunks[k]) :
       /\ ~(c[1] \in CalibratedAxis /\ c[2] \in CalibratedAxis)
       /\ hillNorm(perm, noiseRanges, c[1], c[2]) \notin 0..100

\* the chunk owning grid point (i, j) is in the store
OwnerLoaded(i, j) == Has(chunks, makeKey(i \div chunkSize, j \div chunkSize))

\* what the grid point (i, j) contributes to a height query: the stored sample of the
\* live chunk at (floor(i / chunkSize), floor(j / chunkSize)) times heightScale, or 0
CornerHeight(i, j) ==
  IF \E k \in 1..Len(chunks) : chunks[k].cx = i \div chunkSize /\ chunks[k].cz = j \div chunkSize
  THEN LET c == chunks[CHOOSE k \in 1..Len(chunks) :
                         chunks[k].cx = i \div chunkSize /\ chunks[k].cz = j \div chunkSize]
       IN  c.heightData[(i - c.cx * chunkSize) + (j - c.cz * chunkSize) * (chunkSize + 1) + 1]
             * heightScale
  ELSE 0

\* C12: getHeightAt resolves the owning chunk of each of the four interpolation corners
\* (ix, iz), (ix+1, iz), (ix, iz+1), (ix+1, iz+1) separately, as
\* (floor(i / chunkSize), floor(j / chunkSize)); a corner whose chunk is not in the store
\* contributes 0, a corner whose chunk is live contributes that chunk's stored sample
\* times heightScale, and the call returns a number also when chunks are missing.
C12_CornersResolvedSeparately ==
  call.op = "getHeightAt" =>
    LET ix == call.x \div Sub
        iz == call.z \div Sub
        tx == call.x % Sub
        tz == call.z % Sub
    IN  /\ call.result \in Int
        /\ call.result =
             (CornerHeight(ix, iz) * (Sub - tx) + CornerHeight(ix + 1, iz) * tx) * (Sub - tz)
             + (CornerHeight(ix, iz + 1) * (Sub - tx) + CornerHeight(ix + 1, iz + 1) * tx) * tz

\* C12 witness: a query whose corner (ix, iz) lies in a live chunk while a corner of the
\* next row lies in a chunk that is not loaded, answered with a non-zero height
C12_Witness ==
  /\ call.op = "getHeightAt"
  /\ call.result # 0
  /\ OwnerLoaded(call.x \div Sub, call.z \div Sub)
  /\ ~OwnerLoaded(call.x \div Sub, call.z \div Sub + 1)
  /\ call.z % Sub # 0

\* a query all four corners of which lie in chunks that are not loaded
C12_WitnessAllMissing ==
  /\ call.op = "getHeightAt"
  /\ \A dx, dz \in {0, 1} : ~OwnerLoaded(call.x \div Sub + dx, call.z \div Sub + dz)

\* C13: every heightData sample is finite and >= 0 whatever the noise and the noise
\* ranges are: a NaN, infinite or negative generated value is stored as 0, any other
\* value is stored as generated, and a degenerate range (hillMax = hillMin or
\* detailMax = detailMin) is divided by 1 instead of 0.
C13_SamplesFiniteNonNegative ==
  /\ probe.stage = "stored" =>
       /\ IsFinite(probe.stored)
       /\ probe.stored >= 0
       /\ probe.stored = (IF IsFinite(probe.out) /\ probe.out >= 0 THEN probe.out ELSE 0)
  /\ probe.stage # "input" =>
       /\ (IsFinite(probe.hRaw) /\ IsFinite(noiseRanges.hillMin)
              /\ noiseRanges.hillMax = noiseRanges.hillMin)
            => probe.hillNorm = ((probe.hRaw - noiseRanges.hillMin) * 100) \div 10000
       /\ (Positive(probe.mask) /\ IsFinite(probe.dRaw) /\ IsFinite(noiseRanges.detailMin)
              /\ noiseRanges.detailMax = noiseRanges.detailMin)
            => probe.detailNorm = ((probe.dRaw - noiseRanges.detailMin) * 100) \div 10000

\* C13 witness: a sample generated as NaN over a degenerate hill range, stored as 0
C13_Witness ==
  /\ probe.stage = "stored"
  /\ probe.out = NaN
  /\ probe.stored = 0
  /\ IsFinite(probe.hRaw)
  /\ IsFinite(noiseRanges.hillMin) /\ noiseRanges.hillMax = noiseRanges.hillMin
  /\ probe.hillNorm > 0

\* a sample generated as +Infinity and stored as 0
C13_WitnessInfinite ==
  /\ probe.stage = "stored"
  /\ probe.out = PosInf
  /\ probe.stored = 0

\* a sample generated finite and positive, stored unchanged
C13_WitnessKept ==
  /\ probe.stage = "stored"
  /\ probe.stored > 0

\* the chunk objects (identities) of the store whose coordinate satisfies Test
IdsWhere(store, Test(_)) == {store[k].id : k \in {j \in 1..Len(store) : Test(KeyOf(store[j]))}}

\* C14: a chunk is disposed only by an updateChunks call whose wanted set does not
\* contain its coordinate.  A chunk whose coordinate is in the old and in the new wanted
\* set is retained: the same chunk object stays in the store, it is not disposed and not
\* rebuilt, and its heightData is unchanged.  With radius 1, moving the centre from
\* chunk (0,0) to chunk (2,0) keeps exactly the 3 chunks with cx = 1, disposes the other
\* 6 and creates 6 new ones.
C14_step ==
  IF call'.op = "updateChunks" \/ (call'.op = "updatePlayerPosition" /\ events' # <<>>)
  THEN LET wanted == Wanted(call'.x \div CW, call'.z \div CW)
           InWanted(key) == key \in wanted
           NotWanted(key) == key \notin wanted
       IN  /\ disposed' \ disposed = IdsWhere(chunks, NotWanted)
           /\ \A k \in 1..Len(chunks) :
                KeyOf(chunks[k]) \in wanted =>
                  /\ \E j \in 1..Len(chunks') :
                       /\ chunks'[j].id = chunks[k].id
                       /\ KeyOf(chunks'[j]) = KeyOf(chunks[k])
                       /\ chunks'[j].heightData = chunks[k].heightData
                       /\ chunks'[j].objects = chunks[k].objects
                       /\ chunks'[j].grass.offsets = chunks[k].grass.offsets
                  /\ \A i \in 1..Len(events') :
                       ~(events'[i][1] \in {"create", "dispose"}
                           /\ <<events'[i][2], events'[i][3]>> = KeyOf(chunks[k]))
           /\ (chunkRadius = 1 /\ Keys(chunks) = Wanted(0, 0) /\ wanted = Wanted(2, 0)) =>
                /\ IdsWhere(chunks', InWanted) \cap IdsWhere(chunks, InWanted)
                     = {chunks[k].id : k \in {j \in 1..Len(chunks) : chunks[j].cx = 1}}
                /\ Cardinality(IdsWhere(chunks, InWanted)) = 3
                /\ Cardinality(disposed' \ disposed) = 6
                /\ nextId' - nextId = 6
                /\ Cardinality({i \in 1..Len(events') : IsCreate(events'[i])}) = 6
  ELSE disposed' = disposed

C14_RetainedChunksUntouched == [][C14_step]_vars

\* C14 witness: the first updateChunks call after construction, for a centre two chunks
\* to the east: the constructor's chunks that are still wanted are in the store, all
\* the others have been disposed
C14_Witness ==
  /\ call.op \in {"updateChunks", "updatePlayerPosition"}
  /\ updates = 1
  /\ call.x \div CW = 2 /\ call.z \div CW = 0
  /\ Cardinality({k \in 1..Len(chunks) : chunks[k].id < total}) = side * (side - 2)
  /\ Cardinality(disposed) = total - side * (side - 2)
  /\ \A k \in 1..Len(chunks) : chunks[k].id < total <=> chunks[k].cx \in 1..(chunkRadius)

\* the geometries, materials and textures a chunk draws with
ChunkReferences(chunk) ==
  {chunk.mesh.geometry, chunk.mesh.material}
    \cup {chunk.grass.lod[ci].geometry : ci \in 1..Len(chunk.grass.lod)}
    \cup {chunk.grass.lod[ci].base : ci \in 1..Len(chunk.grass.lod)}
    \cup {chunk.grass.lod[ci].material : ci \in 1..Len(chunk.grass.lod)}
    \cup SharedTextures
    \cup {chunk.objects[i].geometry : i \in 1..Len(chunk.objects)}
    \cup {chunk.objects[i].material : i \in 1..Len(chunk.objects)}

\* C16: disposing chunks never disposes a geometry, material or texture that is shared
\* with a prototype or used by a live chunk: the resources of tree clones and of flower
\* instances, the shared grass material and its textures and the shared base blade
\* geometries are undisposed after any sequence of creations and disposals, while the
\* terrain geometry and material of every disposed chunk are disposed.
C16_SharedResourcesNeverDisposed ==
  /\ \A r \in disposedResources : r[2] # Shared
  /\ \A k \in 1..Len(chunks) : ChunkReferences(chunks[k]) \cap disposedResources = {}
  /\ disposedResources \cap
       ({TreeClone(0, 0, 0).geometry, TreeClone(0, 0, 0).material,
         NewFlower(0, 0, 0, "Daisy").geometry, NewFlower(0, 0, 0, "Daisy").material}
          \cup SharedTextures
          \cup {buildLod(0)[ci].base : ci \in 1..3}
          \cup {buildLod(0)[ci].material : ci \in 1..3}) = {}
  /\ \A id \in disposed :
       /\ Resource("geometry", id) \in disposedResources
       /\ createNoiseMaterial(id) \in disposedResources

\* C16 witness: chunks have been disposed, their own resources with them, and live
\* chunks hold a tree clone and a flower that use the resources of the prototypes
C16_Witness ==
  /\ disposed # {}
  /\ \E id \in disposed : Resource("geometry", id) \in disposedResources
  /\ \E k \in 1..Len(chunks) : \E i \in 1..Len(chunks[k].objects) :
       chunks[k].objects[i].kind = "tree"
  /\ \E k \in 1..Len(chunks) : \E i \in 1..Len(chunks[k].objects) :
       chunks[k].objects[i].kind = "flower" /\ chunks[k].objects[i].sharedModel
  /\ \E k \in 1..Len(chunks) : chunks[k].id >= total

\* the scene nodes of the chunks of the store
LiveNodes == UNION {{ChunkNodes(chunks[k])[i] : i \in 1..Len(ChunkNodes(chunks[k]))} :
                      k \in 1..Len(chunks)}

\* C17: after every updateChunks call the nodes attached to the Terrain group are
\* exactly the terrain mesh, the grass mesh and the scatter objects of the chunks in the
\* store: no node of a disposed chunk is attached, and every node of a live chunk is
\* attached exactly once.
C17_ChildrenAreLiveNodes ==
  /\ {children[i] : i \in 1..Len(children)} = LiveNodes
  /\ \A i, j \in 1..Len(children) : children[i] = children[j] => i = j
  /\ \A i \in 1..Len(children) : children[i][2] \notin disposed
  /\ \A k \in 1..Len(chunks) :
       /\ Cardinality({i \in 1..Len(children) : children[i] = <<"mesh", chunks[k].id, 0>>}) = 1
       /\ Cardinality({i \in 1..Len(children) : children[i] = <<"grass", chunks[k].id, 0>>}) = 1
       /\ \A o \in 1..Len(chunks[k].objects) :
            Cardinality({i \in 1..Len(children) : children[i] = <<"object", chunks[k].id, o>>}) = 1

\* C17 witness: an updateChunks call has disposed chunks that had scatter objects
\* attached and has attached the nodes of the chunks it built
C17_Witness ==
  /\ call.op \in {"updateChunks", "updatePlayerPosition"}
  /\ disposed # {}
  /\ \E k \in 1..Len(chunks) : chunks[k].id >= total /\ Len(chunks[k].objects) > 0
  /\ Len(children) > 2 * Len(chunks)

\* the updateChunks call of this step has thrown
Threw(evs) == Len(evs) > 0 /\ evs[Len(evs)][1] = "fail"

\* the updateChunks call of this step has called createChunk for `key`
Attempted(evs, key) ==
  \E i \in 1..Len(evs) : evs[i][1] \in {"create", "fail"} /\ <<evs[i][2], evs[i][3]>> = key

\* the step is a run of updateChunks
RunsUpdateChunks ==
  call'.op = "updateChunks" \/ (call'.op = "updatePlayerPosition" /\ events' # <<>>)

\* after a throwing build the coordinate has no entry in the store and no node of a
\* chunk at that coordinate is attached
C15_nothingLeft ==
  \A key \in failed :
    /\ ~Has(chunks, key)
    /\ \A i \in 1..Len(children) :
         \E k \in 1..Len(chunks) : chunks[k].id = children[i][2] /\ KeyOf(chunks[k]) # key

\* updatePlayerPosition at the chunk coordinate of the call that threw builds nothing
C15_noRetry ==
  (/\ Threw(events)
   /\ call'.op = "updatePlayerPosition"
   /\ call.op = "updatePlayerPosition"
   /\ ChunkCoord(call'.x) = ChunkCoord(call.x)
   /\ ChunkCoord(call'.z) = ChunkCoord(call.z))
    => (events' = <<>> /\ chunks' = chunks /\ failed' = failed /\ nextId' = nextId)

\* C15 as stated: if createChunk throws during updateChunks, the coordinate has no
\* entry in the store and none of its nodes are attached afterwards; nothing retries
\* the build while the player stays in the same chunk coordinate; and the next
\* updateChunks call whose wanted set contains that coordinate calls createChunk for
\* it again.
C15_orig_step ==
  /\ C15_nothingLeft'
  /\ C15_noRetry
  /\ RunsUpdateChunks =>
       \A key \in failed \cap Wanted(ChunkCoord(call'.x), ChunkCoord(call'.z)) :
         Attempted(events', key)

C15_step ==
  /\ C15_nothingLeft'
  /\ C15_noRetry
  /\ RunsUpdateChunks =>
       \A key \in failed \cap Wanted(ChunkCoord(call'.x), ChunkCoord(call'.z)) :
         \/ Attempted(events', key)
         \/ /\ Threw(events')
            /\ \E il, ih \in 0..(total - 1) :
                 /\ il < ih
                 /\ makeKey(ChunkCoord(call'.x) + (il % side) - chunkRadius,
                            ChunkCoord(call'.z) + (il \div side) - chunkRadius)
                      = <<events'[Len(events')][2], events'[Len(events')][3]>>
                 /\ makeKey(ChunkCoord(call'.x) + (ih % side) - chunkRadius,
                            ChunkCoord(call'.z) + (ih \div side) - chunkRadius) = key

C15_WitnessPending ==
  /\ failed # {}
  /\ call.op = "updatePlayerPosition"
  /\ events = <<>>

\* the candidates of a grass that passed the placement test, in the order drawn
Accepted(grass) == SelectSeq(grass.candidates, LAMBDA c : c.place)

\* C18: createInstancedGeometry compacts the grass instances: placedCount <= bladeCount,
\* instanceCount = placedCount, the offset, scale and halfRootAngle attributes hold
\* exactly placedCount entries, and entry k is the k-th accepted blade, in acceptance
\* order, no slot belonging to a rejected candidate.
C18_GrassCompacted ==
  \A k \in 1..Len(chunks) :
    LET g == chunks[k].grass
        accepted == Accepted(g)
    IN  /\ g.placedCount <= bladeCount
        /\ g.placedCount = Len(accepted)
        /\ g.instanceCount = g.placedCount
        /\ Len(g.offsets) = g.placedCount
        /\ Len(g.scales) = g.placedCount
        /\ Len(g.halfRootAngles) = g.placedCount
        /\ \A i \in 1..g.placedCount :
             /\ g.offsets[i] = accepted[i].offset
             /\ g.scales[i] = accepted[i].scale
             /\ g.halfRootAngles[i] = accepted[i].halfRootAngle
        /\ \A i, j \in 1..Len(accepted) : i < j => accepted[i].index < accepted[j].index

\* C18 witness: a chunk whose first candidate blade was rejected and whose second was
\* accepted, so that slot 0 holds the blade of candidate 1
C18_Witness ==
  \E k \in 1..Len(chunks) :
    LET g == chunks[k].grass
    IN  /\ Len(g.candidates) >= 2
        /\ ~g.candidates[1].place
        /\ g.candidates[2].place
        /\ g.placedCount >= 1
        /\ g.offsets[1] = g.candidates[2].offset

\* vertex (lx, lz) of the chunk at (cx, cz) lies on an edge whose neighbour is loaded
OnStitchedEdge(cx, cz, lx, lz) ==
  \/ lx = cw - 1 /\ Has(chunks, makeKey(cx + 1, cz))
  \/ lx = 0 /\ Has(chunks, makeKey(cx - 1, cz))
  \/ lz = cd - 1 /\ Has(chunks, makeKey(cx, cz + 1))
  \/ lz = 0 /\ Has(chunks, makeKey(cx, cz - 1))

\* C19: smoothChunkBorders changes only normals on an edge that has a live neighbour:
\* a normal on an edge whose neighbour is not in the store, and on no stitched edge, is
\* unchanged, interior normals are never changed, and a chunk whose +Z neighbour is
\* missing is still stitched with its +X neighbour (and the other way round).
C19_StitchOnlyLiveEdges ==
  (events # <<>> /\ IsSmooth(events[Len(events)])) =>
    LET before == events[Len(events)][2]
    IN  \A k \in 1..Len(chunks) :
          LET cx == chunks[k].cx
              cz == chunks[k].cz
          IN  /\ \A lx \in 0..(cw - 1), lz \in 0..(cd - 1) :
                   ~OnStitchedEdge(cx, cz, lx, lz) =>
                     chunks[k].normals[VIndex(lx, lz)] = before[k][VIndex(lx, lz)]
              /\ Has(chunks, makeKey(cx + 1, cz)) =>
                   LET r == IndexOfKey(chunks, makeKey(cx + 1, cz))
                   IN  \A lz \in 1..(cd - 2) :
                         /\ chunks[k].normals[VIndex(cw - 1, lz)]
                              = MeanNormal(before[k][VIndex(cw - 1, lz)], before[r][VIndex(0, lz)])
                         /\ chunks[r].normals[VIndex(0, lz)] = chunks[k].normals[VIndex(cw - 1, lz)]
              /\ Has(chunks, makeKey(cx, cz + 1)) =>
                   LET f == IndexOfKey(chunks, makeKey(cx, cz + 1))
                   IN  \A lx \in 1..(cw - 2) :
                         /\ chunks[k].normals[VIndex(lx, cd - 1)]
                              = MeanNormal(before[k][VIndex(lx, cd - 1)], before[f][VIndex(lx, 0)])
                         /\ chunks[f].normals[VIndex(lx, 0)] = chunks[k].normals[VIndex(lx, cd - 1)]

\* C19 witness: a chunk without +Z neighbour whose +X edge has been stitched (a normal
\* on it has changed) and whose far edge has a normal that no stitching touched
C19_Witness ==
  /\ events # <<>> /\ IsSmooth(events[Len(events)])
  /\ \E k \in 1..Len(chunks) :
       /\ ~Has(chunks, makeKey(chunks[k].cx, chunks[k].cz + 1))
       /\ Has(chunks, makeKey(chunks[k].cx + 1, chunks[k].cz))
       /\ \E lz \in 1..(cd - 2) :
            chunks[k].normals[VIndex(cw - 1, lz)] # events[Len(events)][2][k][VIndex(cw - 1, lz)]
       /\ \E lx \in 1..(cw - 2) :
            chunks[k].normals[VIndex(lx, cd - 1)] = events[Len(events)][2][k][VIndex(lx, cd - 1)]

\* a chunk without +X neighbour whose +Z edge has been stitched
C19_WitnessMissingX ==
  /\ events # <<>> /\ IsSmooth(events[Len(events)])
  /\ \E k \in 1..Len(chunks) :
       /\ ~Has(chunks, makeKey(chunks[k].cx + 1, chunks[k].cz))
       /\ Has(chunks, makeKey(chunks[k].cx, chunks[k].cz + 1))
       /\ \E lx \in 1..(cw - 2) :
            chunks[k].normals[VIndex(lx, cd - 1)] # events[Len(events)][2][k][VIndex(lx, cd - 1)]

\* the column lx of a heightData grid, near to far
Column(heightData, lx) == [lz \in 1..cd |-> heightData[VIndex(lx, lz - 1)]]

\* the row lz of a heightData grid, left to right
Row(heightData, lz) == [lx \in 1..cw |-> heightData[VIndex(lx - 1, lz)]]

\* C20: for every pair of live chunks adjacent in X (in Z), the last column (row) of
\* the first chunk's heightData equals the first column (row) of the second chunk's
\* heightData sample for sample, each chunk having generated its grid of
\* (chunkSize + 1) x (chunkSize + 1) samples on its own.
C20_BorderSamplesEqual ==
  \A a, b \in 1..Len(chunks) :
    /\ Len(chunks[a].heightData) = (chunkSize + 1) * (chunkSize + 1)
    /\ (chunks[b].cx = chunks[a].cx + 1 /\ chunks[b].cz = chunks[a].cz) =>
         Column(chunks[a].heightData, cw - 1) = Column(chunks[b].heightData, 0)
    /\ (chunks[b].cx = chunks[a].cx /\ chunks[b].cz = chunks[a].cz + 1) =>
         Row(chunks[a].heightData, cd - 1) = Row(chunks[b].heightData, 0)

\* C20 witness: two chunks adjacent in X, built by different updateChunks calls, whose
\* shared column is not flat and differs from the opposite column of the first chunk
C20_Witness ==
  \E a, b \in 1..Len(chunks) :
    /\ chunks[b].cx = chunks[a].cx + 1 /\ chunks[b].cz = chunks[a].cz
    /\ chunks[a].id < total /\ chunks[b].id >= total
    /\ Column(chunks[b].heightData, 0) # Column(chunks[a].heightData, 0)
    /\ \E lz \in 1..cd : Column(chunks[b].heightData, 0)[lz] > 0
    /\ \E lz \in 2..cd : Column(chunks[b].heightData, 0)[lz] # Column(chunks[b].heightData, 0)[1]

\* two chunks adjacent in Z, built by different updateChunks calls
C20_WitnessZ ==
  \E a, b \in 1..Len(chunks) :
    /\ chunks[b].cx = chunks[a].cx /\ chunks[b].cz = chunks[a].cz + 1
    /\ chunks[a].id < total /\ chunks[b].id >= total
    /\ Row(chunks[b].heightData, 0) # Row(chunks[a].heightData, 0)

\* C21: generateTreesForChunk computes the tree count of the original
\* Terrain.createChunk for every normalized density d in [0, 1]: 0 when
\* d <= treeLowThreshold, maxTreesPerChunk when d >= treeHighThreshold, 0 in between;
\* and no chunk holds more than maxTreesPerChunk trees.
C21_TreeCountAsOriginal ==
  /\ probe.stage = "counted" =>
       /\ probe.treeCount = probe.original
       /\ probe.densityNormalized <= treeLowThreshold => probe.treeCount = 0
       /\ probe.densityNormalized >= treeHighThreshold => probe.treeCount = maxTreesPerChunk
       /\ (probe.densityNormalized > treeLowThreshold
             /\ probe.densityNormalized < treeHighThreshold) => probe.treeCount = 0
  /\ \A k \in 1..Len(chunks) :
       Cardinality({i \in 1..Len(chunks[k].objects) : chunks[k].objects[i].kind = "tree"})
         <= maxTreesPerChunk

\* C22: for the GrassChunk that pads rejected blades with dummy instances, the
\* renderable instanceCount never exceeds the number of blades placed, right after
\* construction and after any sequence of update calls at any camera distance.
C22_DummiesNeverDrawn ==
  probe.stage = "grassChunk" => probe.instanceCount <= probe.placed

\* the store holds the chunk object `id`
InStore(id) == \E k \in 1..Len(chunks) : chunks[k].id = id

\* the instances whose model load has failed
FailedInstances ==
  {n \in 1..Len(probe.instances) :
     probe.modelCache[ModelKey(probe.instances[n].class)] = "rejected"}

\* C23: a failure to load a flower or rock model never reaches terrain streaming: the
\* rejection is caught and logged by the flower's constructor, no createChunk call
\* throws, the chunk of the flower is in the store with the flower attached until it is
\* evicted, and the flower stays an empty group with no model attached; the failure and
\* its logging change nothing of the Terrain.
C23_LoadFailureStaysInFlower ==
  /\ [](probe.stage = "loads" =>
          /\ failed = {}
          /\ ~Threw(events)
          /\ \A n \in FailedInstances :
               LET flower == probe.instances[n]
               IN  /\ flower.status \in {"awaiting", "logged"}
                   /\ flower.children = <<>>
                   /\ flower.node[2] \notin disposed =>
                        /\ InStore(flower.node[2])
                        /\ \E i \in 1..Len(children) : children[i] = flower.node)
  /\ [][(probe.stage = "loads" /\ probe'.stage = "loads"
           /\ (\/ \E key \in ModelKeys : probe'.modelCache[key] = "rejected"
                                            /\ probe.modelCache[key] # "rejected"
               \/ \E n \in 1..Len(probe.instances) :
                    probe'.instances[n].status = "logged"
                      /\ probe.instances[n].status # "logged")) =>
            UNCHANGED <<chunks, lastChunkX, lastChunkZ, noiseRanges, perm, nextId, disposed,
                        failed, children, disposedResources, built, events, updates>>]_vars

\* C23 witness: a flower of a live chunk whose model load failed and whose rejection has
\* been logged, after which the terrain has streamed again
C23_Witness ==
  /\ probe.stage = "loads"
  /\ updates > 0
  /\ \E n \in FailedInstances :
       /\ probe.instances[n].status = "logged"
       /\ InStore(probe.instances[n].node[2])
       /\ probe.instances[n].children = <<>>

\* the nodes reachable from the Terrain group: its children and, below a flower that is
\* one of them, what has been added to the flower
SceneGraph ==
  {children[i] : i \in 1..Len(children)}
    \cup UNION {{probe.instances[n].children[j] : j \in 1..Len(probe.instances[n].children)} :
                 n \in {m \in 1..Len(probe.instances) :
                          \E i \in 1..Len(children) : children[i] = probe.instances[m].node}}

\* C28: when the model load of a flower completes after the chunk of the flower has
\* been disposed, in any interleaving of the load callbacks with updateChunks calls, the
\* loaded model is added to the flower's own detached group only: the step adds no node
\* to the Terrain group and no entry to the store, and no node of a disposed chunk is
\* ever reachable from the scene graph.
C28_LateModelStaysDetached ==
  /\ [](probe.stage = "loads" => \A node \in SceneGraph : node[2] \notin disposed)
  /\ [][\A n \in 1..Len(probe.instances) :
          (/\ probe.stage = "loads"
           /\ probe.instances[n].status = "awaiting"
           /\ probe'.instances[n].status = "attached"
           /\ probe.instances[n].node[2] \in disposed) =>
            /\ children' = children
            /\ chunks' = chunks
            /\ disposed' = disposed
            /\ probe'.instances[n].children
                 = <<<<"lod", probe.instances[n].node[2], probe.instances[n].node[3]>>>>
            /\ \A i \in 1..Len(children') : children'[i] # probe.instances[n].node]_vars

\* C28 witness: a flower whose model was attached after its chunk had been disposed
C28_Witness ==
  /\ probe.stage = "loads"
  /\ \E n \in 1..Len(probe.instances) :
       /\ probe.instances[n].status = "attached"
       /\ probe.instances[n].detached
       /\ probe.instances[n].node[2] \in disposed
       /\ Len(probe.instances[n].children) = 1

\* C29: for any number of flower instances constructed for the same model key, in any
\* interleaving of constructions with load callbacks, the MTL/OBJ loaders are started at
\* most once for the key: the key has an entry in the cache exactly when its loaders
\* were started, every instance constructed later finds that entry, also when the load
\* has failed, and every instance that has resumed got the outcome of that one load.
C29_LoadersStartedOncePerKey ==
  probe.stage = "loads" =>
    /\ \A key \in ModelKeys :
         /\ probe.loaderStarts[key] <= 1
         /\ probe.loaderStarts[key] = 1 <=> probe.modelCache[key] # "absent"
         /\ probe.loaderStarts[key] = 1 <=>
              \E n \in 1..Len(probe.instances) : ModelKey(probe.instances[n].class) = key
    /\ \A n \in 1..Len(probe.instances) :
         LET key == ModelKey(probe.instances[n].class)
         IN  /\ probe.instances[n].found = "absent" <=>
                  \A m \in 1..(n - 1) : ModelKey(probe.instances[m].class) # key
             /\ probe.instances[n].status = "attached" => probe.modelCache[key] = "fulfilled"
             /\ probe.instances[n].status = "logged" => probe.modelCache[key] = "rejected"

\* C29 witness: two instances of one key, the second constructed after the load had
\* failed, both having resumed with the rejection of the one load
C29_Witness ==
  /\ probe.stage = "loads"
  /\ \E n, m \in 1..Len(probe.instances) :
       /\ n < m
       /\ ModelKey(probe.instances[n].class) = ModelKey(probe.instances[m].class)
       /\ probe.instances[m].found = "rejected"
       /\ probe.instances[n].status = "logged"
       /\ probe.instances[m].status = "logged"
       /\ probe.loaderStarts[ModelKey(probe.instances[n].class)] = 1

\* two instances of one key, the second constructed while the load was pending
C29_WitnessPending ==
  /\ probe.stage = "loads"
  /\ \E n, m \in 1..Len(probe.instances) :
       /\ n < m
       /\ ModelKey(probe.instances[n].class) = ModelKey(probe.instances[m].class)
       /\ probe.instances[m].found = "pending"
       /\ probe.instances[m].status = "attached"

\* the cell indices of the footprint of a chunk along one axis
FootprintCells(offset) == offset..(offset + chunkSize - 1)

\* C24: positions are mapped to chunk coordinates with floor, also when negative: every
\* cell (ix, iz) of the footprint of a live chunk is routed by Terrain.sampleCellHeight
\* to that chunk (floor(ix / chunkSize) is its coordinate and 0 <= ix - cx * chunkSize <
\* chunkSize) and answered with its stored sample, the bounds check of
\* TerrainChunk.sampleCellHeight not rejecting it; and the chunk coordinate that
\* updateChunks and updatePlayerPosition derive from a position is the one
\* sampleCellHeight derives from the cell of that position: it is the recorded
\* coordinate after updatePlayerPosition and the centre of the live square after
\* updateChunks.
C24_FloorChunkCoordinates ==
  /\ \A k \in 1..Len(chunks) :
       \A ix \in FootprintCells(chunks[k].offsetX), iz \in FootprintCells(chunks[k].offsetZ) :
         /\ ix \div chunkSize = chunks[k].cx
         /\ iz \div chunkSize = chunks[k].cz
         /\ ix - chunks[k].cx * chunkSize \in 0..(chunkSize - 1)
         /\ iz - chunks[k].cz * chunkSize \in 0..(chunkSize - 1)
         /\ sampleCellHeight(chunks, ix, iz)
              = chunks[k].heightData[VIndex(ix - chunks[k].offsetX, iz - chunks[k].offsetZ)]
  /\ call.op \in {"updateChunks", "updatePlayerPosition"} =>
       LET cellCX == (call.x \div Sub) \div chunkSize
           cellCZ == (call.z \div Sub) \div chunkSize
       IN  /\ ChunkCoord(call.x) = cellCX
           /\ ChunkCoord(call.z) = cellCZ
           /\ call.op = "updatePlayerPosition" => lastChunkX = cellCX /\ lastChunkZ = cellCZ
           /\ UpdateChunksRan =>
                /\ Has(chunks, makeKey(cellCX, cellCZ))
                /\ \A k \in 1..Len(chunks) :
                     Max(Abs(chunks[k].cx - cellCX), Abs(chunks[k].cz - cellCZ)) <= chunkRadius

\* C24 witness: updatePlayerPosition at a negative position has streamed around chunk
\* (-1, -1), and a cell of negative index has a non-zero sample in its owning chunk
C24_Witness ==
  /\ call.op = "updatePlayerPosition"
  /\ call.x < 0 /\ call.z < 0
  /\ UpdateChunksRan
  /\ lastChunkX = -1 /\ lastChunkZ = -1
  /\ \E k \in 1..Len(chunks) :
       /\ chunks[k].cx < 0 /\ chunks[k].cz < 0
       /\ \E ix \in FootprintCells(chunks[k].offsetX), iz \in FootprintCells(chunks[k].offsetZ) :
            /\ ix < 0 /\ iz < 0
            /\ ix % chunkSize # 0
            /\ sampleCellHeight(chunks, ix, iz) # 0

\* C25: the shared grass resources (the two blade textures, the base blade geometry,
\* the far and the cross base geometry, the shared material) are each constructed at
\* most once over any number of Grass constructions and disposals, exactly once as soon
\* as one Grass exists, and every Grass uses the material, the textures and the base
\* geometries the first one uses.
C25_SharedGrassResourcesOnce ==
  probe.stage = "grassModule" =>
    /\ \A name \in DOMAIN probe.constructed :
         /\ probe.constructed[name] <= 1
         /\ probe.grasses # <<>> => probe.constructed[name] = 1 /\ probe.shared[name] # 0
    /\ \A g \in 1..Len(probe.grasses) :
         /\ probe.grasses[g].material = probe.grasses[1].material
         /\ probe.grasses[g].base = probe.grasses[1].base
         /\ probe.grasses[g].farBase = probe.grasses[1].farBase
         /\ probe.grasses[g].crossBase = probe.grasses[1].crossBase
         /\ probe.grasses[g].map = probe.grasses[1].map
         /\ probe.grasses[g].alphaMap = probe.grasses[1].alphaMap
         /\ probe.grasses[g].material = probe.shared["sharedMaterial"]
         /\ probe.grasses[g].base = probe.shared["baseGeometry"]

\* C25 witness: a Grass constructed after the first Grass has been disposed
C25_Witness ==
  /\ probe.stage = "grassModule"
  /\ Len(probe.grasses) >= 3
  /\ ~probe.grasses[1].live
  /\ ~probe.grasses[2].live
  /\ probe.grasses[3].live
  /\ probe.grasses[3].material # 0

\* the vertices on the boundary of a chunk
BoundaryVertices ==
  {VIndex(lx, lz) : lx \in {0, cw - 1}, lz \in 0..(cd - 1)}
    \cup {VIndex(lx, lz) : lx \in 0..(cw - 1), lz \in {0, cd - 1}}

\* the boundary normals of the chunk at `key` are the same in both stores
SameBoundaryNormals(storeA, storeB, key) ==
  \A v \in BoundaryVertices : Get(storeA, key).normals[v] = Get(storeB, key).normals[v]

\* C26: stitched border normals do not depend on the streaming history: whenever a
\* sequence of updateChunks calls ends with the live chunk set the constructor made,
\* every boundary normal of every live chunk is what it was after the constructor (also
\* for a chunk that was retained while its neighbour was evicted and loaded again), and
\* an updateChunks call that changes no chunk of the set leaves every normal unchanged.
C26_NormalsHistoryFree ==
  /\ [](\A p \in Perms, rng \in RandSeeds :
          (/\ UpdateChunksRan
           /\ perm = p
           /\ Keys(chunks) = Wanted(ChunkCoord(0), ChunkCoord(0))) =>
            \A key \in Keys(chunks) :
              SameBoundaryNormals(chunks, updateChunks(FreshState(p), 0, 0, rng).chunks, key))
  /\ [][(/\ (call'.op = "updateChunks" \/ (call'.op = "updatePlayerPosition" /\ events' # <<>>))
          /\ \A i \in 1..Len(events') : IsSmooth(events'[i])) =>
           \A k \in 1..Len(chunks) : chunks'[k].normals = chunks[k].normals]_vars

\* C27: after construction and after any sequence of calls of the public methods
\* updateChunks and updatePlayerPosition, the live chunk set is exactly the square of
\* (2 * chunkRadius + 1)^2 chunks centred on the recorded (lastChunkX, lastChunkZ), and
\* the recorded coordinate is the chunk coordinate of the position passed to the most
\* recent of those calls.
C27_LiveSquareAroundRecorded ==
  /\ Keys(chunks) = Wanted(lastChunkX, lastChunkZ)
  /\ Len(chunks) = (2 * chunkRadius + 1) * (2 * chunkRadius + 1)
  /\ call.op \in {"updateChunks", "updatePlayerPosition"} =>
       /\ lastChunkX = ChunkCoord(call.x)
       /\ lastChunkZ = ChunkCoord(call.z)

\* C30: the player cannot jump twice without landing in between: between two Space
\* presses that each add jumpVelocity there is an update that clamped the player to
\* ground height + eye height and set canJump; a press adds velocity only when canJump
\* is set, and clears it; a Space key-up (any key-up) never adds velocity; and after
\* every update the player's y is >= ground(x, z) + height.
C30_NoDoubleJump ==
  /\ [](probe.stage = "player" =>
          /\ probe.jumps <= 1
          /\ probe.jumps = 1 => ~probe.canJump
          /\ probe.last = "update" => probe.y >= probe.groundY + height)
  /\ [][(probe.stage = "player" /\ probe'.last \in {"keydown", "keyup"}) =>
           /\ probe'.y = probe.y
           /\ probe'.last = "keyup" => probe'.velocityY = probe.velocityY
           /\ probe'.velocityY # probe.velocityY =>
                /\ probe.canJump /\ ~probe'.canJump
                /\ probe.jumps = 0
                /\ probe'.velocityY = probe.velocityY + jumpVelocity]_vars

\* C30 witness: the player is in the air after the second jump, the first one having
\* been followed by a landing
C30_Witness ==
  /\ probe.stage = "player"
  /\ probe.presses = 2
  /\ probe.jumps = 1
  /\ probe.last = "update"
  /\ probe.y > probe.groundY + height

====
